---------------------------- MODULE Spec2Model ----------------------------
(***************************************************************************)
(* Recommendation engine of the ShopSmart store: the explanation adapter   *)
(* (GeminiService and its response cache), the collaborative and content   *)
(* scorers, the hybrid combiner with its diversity variant, and the        *)
(* RecommendationService / HTTP entry points in front of them.             *)
(*                                                                         *)
(* Numbers.  The code scores in floating point.  Here every score is a     *)
(* fixed-point integer in thousandths (SCALE), every division truncates,   *)
(* and prices and ratings are integers.                                    *)
(***************************************************************************)
EXTENDS Integers, Sequences, FiniteSets, TLC

VARIABLES
    cache,          \* GeminiService._cache: insertion-ordered <<[prompt, response]>>
    inserted_at,    \* history: prompt -> logical time of its insertion into cache
    clock,          \* history: number of insertions so far
    gen,            \* history: what the last GeminiService call did
    pc,             \* request thread -> the line of generate_content it is at
    tl,             \* request thread -> its locals (prompt, result, key, error)
    dpc,            \* get_recommendations_with_diversity: where the call is
    dargs,          \* its arguments, and the hybrid list recommend_products gave it
    category_recs,  \* its local category_recs: category -> list of recommendations
    categories,     \* its local categories
    items_per_category, \* its local items_per_category
    category_index, \* its local category_index
    diverse_recs,   \* its local diverse_recs, and in the end its return value
    users,          \* the users table: id -> row
    products,       \* the products table: id -> row
    interactions,   \* the user_interactions table, in id order
    gemini_available, \* RecommendationService.gemini_available
    req,            \* the operation last called on the engine, with its arguments
    res             \* and what it returned

geminiVars == <<cache, inserted_at, clock, gen>>
threadVars == <<pc, tl>>
divVars == <<dpc, dargs, category_recs, categories, items_per_category,
             category_index, diverse_recs>>
storeVars == <<users, products, interactions, gemini_available>>
callVars == <<req, res>>
\* what the GeminiService steps, and the diversity steps, leave alone
notGemini == <<divVars, storeVars, callVars>>
notDiversity == <<geminiVars, threadVars, storeVars, callVars>>
vars == <<cache, inserted_at, clock, gen, pc, tl,
          dpc, dargs, category_recs, categories, items_per_category,
          category_index, diverse_recs,
          users, products, interactions, gemini_available, req, res>>

(***************************************************************************)
(* GeminiService: the response cache, src/app/services/gemini_service.py   *)
(***************************************************************************)

\* self._cache_max_size = 100
_cache_max_size == 100

\* generate_content's "return None  # Signal to use fallback"
None == "<None>"

\* generate_content's answer when the collaborator produced no text
APOLOGY == "I apologize, but I couldn't generate an explanation at this time."

\* Texts the collaborator may put in response.text, and str.strip() on them.
ReplyTexts == {"", "  ", " Great pick! "}
strip(t) == CASE t = "  " -> ""
              [] t = " Great pick! " -> "Great pick!"
              [] OTHER -> t

\* What self.model.generate_content does on one call: a response with text,
\* a response whose .text raises ValueError and that has no candidate parts,
\* an exception naming 429/quota, any other exception.
Replies ==
    [kind : {"text"}, text : ReplyTexts]
        \cup {[kind |-> "no_parts", text |-> ""],
              [kind |-> "rate_limit", text |-> ""],
              [kind |-> "exception", text |-> ""]}

\* the keys of the dict, and `prompt in self._cache`
Keys(c) == {c[i].prompt : i \in 1..Len(c)}
InCache(c, prompt) == prompt \in Keys(c)

\* self._cache[prompt] as an expression (the caller has checked membership)
CacheGet(c, prompt) == c[CHOOSE i \in 1..Len(c) : c[i].prompt = prompt].response

\* self._cache[prompt] = response: a present key keeps its place in the
\* iteration order, a new key goes last
DictSet(c, prompt, response) ==
    IF InCache(c, prompt)
    THEN [i \in 1..Len(c) |->
            IF c[i].prompt = prompt
            THEN [prompt |-> prompt, response |-> response] ELSE c[i]]
    ELSE Append(c, [prompt |-> prompt, response |-> response])

\* self._cache.pop(key) for a key that is present
DictPop(c, key) ==
    LET i == CHOOSE j \in 1..Len(c) : c[j].prompt = key
    IN  [j \in 1..(Len(c) - 1) |-> IF j < i THEN c[j] ELSE c[j + 1]]

\* next(iter(self._cache)) of a non-empty dict
first_key(c) == c[1].prompt

\* mutant: refuses the insertion instead of evicting
add_to_cache_no_evict(c, prompt, response) ==
    IF Len(c) >= _cache_max_size THEN c ELSE DictSet(c, prompt, response)

\* mutant: evicts the newest entry
add_to_cache_evict_newest(c, prompt, response) ==
    DictSet(IF Len(c) >= _cache_max_size THEN DictPop(c, c[Len(c)].prompt) ELSE c,
            prompt, response)

\* mutant: no size limit
add_to_cache_unbounded(c, prompt, response) == DictSet(c, prompt, response)

\* GeminiService._add_to_cache, run without interruption
_add_to_cache(c, prompt, response) ==
    DictSet(IF Len(c) >= _cache_max_size THEN DictPop(c, first_key(c)) ELSE c,
            prompt, response)

\* The text extracted from a response (lines 92-103): None when there is none.
extract_text(reply) ==
    IF reply.kind = "text" /\ reply.text # "" THEN strip(reply.text) ELSE ""

\* mutant: the cache is not consulted
generate_content_no_lookup(c, prompt, use_cache, reply) ==
    IF reply.kind \in {"rate_limit", "exception"}
    THEN [result |-> None, cache |-> c, called |-> TRUE]
    ELSE IF extract_text(reply) # ""
    THEN [result |-> extract_text(reply),
          cache  |-> IF use_cache THEN _add_to_cache(c, prompt, extract_text(reply)) ELSE c,
          called |-> TRUE]
    ELSE [result |-> APOLOGY, cache |-> c, called |-> TRUE]

\* mutant: the apology for an empty output is cached like a text
generate_content_caches_apology(c, prompt, use_cache, reply) ==
    IF use_cache /\ InCache(c, prompt)
    THEN [result |-> CacheGet(c, prompt), cache |-> c, called |-> FALSE]
    ELSE IF reply.kind \in {"rate_limit", "exception"}
    THEN [result |-> None, cache |-> c, called |-> TRUE]
    ELSE LET result == IF extract_text(reply) # "" THEN extract_text(reply)
                       ELSE APOLOGY
         IN  [result |-> result,
              cache  |-> IF use_cache THEN _add_to_cache(c, prompt, result) ELSE c,
              called |-> TRUE]

\* GeminiService.generate_content, run without interruption.  `reply` is what
\* the collaborator would answer if it is called.
generate_content(c, prompt, use_cache, reply) ==
    IF use_cache /\ InCache(c, prompt)
    THEN [result |-> CacheGet(c, prompt), cache |-> c, called |-> FALSE]
    ELSE IF reply.kind \in {"rate_limit", "exception"}
    THEN [result |-> None, cache |-> c, called |-> TRUE]
    ELSE LET result == extract_text(reply) IN
         IF result # ""
         THEN [result |-> result,
               cache  |-> IF use_cache THEN _add_to_cache(c, prompt, result) ELSE c,
               called |-> TRUE]
         ELSE [result |-> APOLOGY, cache |-> c, called |-> TRUE]

(***************************************************************************)
(* SpecCache: generate_content and clear_cache called one at a time.       *)
(* The cache starts empty (after construction) or warm: the state after    *)
(* WarmSize successful calls with the prompts 1..WarmSize.                 *)
(***************************************************************************)
WarmSize == 98
NewPrompts == 3
MaxInserts == 4

WarmCache(n) == [i \in 1..n |-> [prompt |-> i, response |-> "You will love it."]]
CachePrompts == {1} \cup ((WarmSize + 1)..(WarmSize + NewPrompts))

NoCall == [op |-> "none", prompt |-> 0, use_cache |-> FALSE,
           result |-> None, called |-> FALSE, len_before |-> 0,
           oldest_before |-> {}, hit |-> FALSE, evicted |-> {}, inserted |-> {}]

\* the prompts of c that were inserted earliest (history clock); gen records
\* them for the calls that find the cache full
Oldest(c, at) ==
    LET ts == {at[c[i].prompt] : i \in 1..Len(c)}
    IN  IF c = << >> THEN {}
        ELSE LET m == CHOOSE t \in ts : \A u \in ts : t <= u
             IN  {c[i].prompt : i \in {j \in 1..Len(c) : at[c[j].prompt] = m}}

NoThreads == << >>

\* no call of get_recommendations_with_diversity is in progress
NoDiversity ==
    /\ dpc = "none" /\ dargs = << >> /\ category_recs = << >> /\ categories = << >>
    /\ items_per_category = 0 /\ category_index = 0 /\ diverse_recs = << >>

\* the database is not read
NoStore ==
    /\ users = << >> /\ products = << >> /\ interactions = << >>
    /\ gemini_available = FALSE
    /\ req = << >> /\ res = << >>

InitCache ==
    /\ pc = NoThreads /\ tl = NoThreads
    /\ NoDiversity /\ NoStore
    /\ \E n \in {0, WarmSize} :
         /\ cache = WarmCache(n)
         /\ inserted_at = [p \in 1..n |-> p]
         /\ clock = WarmSize
    /\ gen = NoCall

GenerateContent(prompt, use_cache, reply) ==
    \E r \in {generate_content(cache, prompt, use_cache, reply)} :
    \E ins \in {Keys(r.cache) \ Keys(cache)} :
        /\ clock < WarmSize + MaxInserts
        /\ cache' = r.cache
        /\ clock' = IF ins = {} THEN clock ELSE clock + 1
        /\ inserted_at' = [p \in Keys(r.cache) |->
                             IF p \in ins THEN clock + 1 ELSE inserted_at[p]]
        /\ gen' = [op |-> "generate_content", prompt |-> prompt,
                   use_cache |-> use_cache,
                   result |-> r.result, called |-> r.called,
                   len_before |-> Len(cache),
                   oldest_before |-> IF Len(cache) >= _cache_max_size
                                     THEN Oldest(cache, inserted_at) ELSE {},
                   hit |-> InCache(cache, prompt),
                   evicted |-> Keys(cache) \ Keys(r.cache),
                   inserted |-> ins]
        /\ UNCHANGED <<threadVars, notGemini>>

\* GeminiService.clear_cache
ClearCache ==
    /\ cache # << >>
    /\ cache' = << >>
    /\ inserted_at' = << >>
    /\ gen' = [NoCall EXCEPT !.op = "clear_cache", !.len_before = Len(cache),
                             !.evicted = Keys(cache)]
    /\ UNCHANGED <<clock, threadVars, notGemini>>

NextCache ==
    \/ \E prompt \in CachePrompts, use_cache \in BOOLEAN, reply \in Replies :
          GenerateContent(prompt, use_cache, reply)
    \/ ClearCache

SpecCache == InitCache /\ [][NextCache]_vars

\* C2: called one at a time, generate_content and clear_cache never leave more
\* than 100 entries in the cache, and an insertion into a full cache evicts
\* exactly the prompt that was inserted earliest (hits do not change the age).
C2_BoundedFifo ==
    /\ Len(cache) <= _cache_max_size
    /\ (gen.op = "generate_content" /\ gen.inserted # {}
            /\ gen.len_before >= _cache_max_size)
        => /\ Cardinality(gen.evicted) = 1
           /\ gen.evicted = gen.oldest_before
           /\ Len(cache) = gen.len_before

\* C2 witness: a new prompt was inserted into a cache holding 100 entries.
C2_Witness ==
    /\ gen.op = "generate_content" /\ gen.len_before = _cache_max_size
    /\ gen.inserted = {gen.prompt} /\ gen.evicted # {}

\* C14: while the cache holds a response for a prompt, generate_content on
\* that prompt with use_cache returns the stored text, does not call the
\* collaborator and leaves the cache as it is; and a call with use_cache that
\* does reach the collaborator and gets a text leaves that text in the cache,
\* so until the entry is evicted or cleared no further call is made for it.
C14_HitWithoutCall ==
    [][(gen'.op = "generate_content" /\ gen'.use_cache)
          => /\ InCache(cache, gen'.prompt)
                  => /\ gen'.result = CacheGet(cache, gen'.prompt)
                     /\ ~gen'.called
                     /\ cache' = cache
             /\ gen'.called => ~InCache(cache, gen'.prompt)
             /\ (gen'.called /\ gen'.result \notin {None, APOLOGY})
                  => /\ InCache(cache', gen'.prompt)
                     /\ CacheGet(cache', gen'.prompt) = gen'.result]_vars

\* C14 witness: a call with use_cache on a prompt the cache holds returned
\* without calling the collaborator
C14_Witness ==
    /\ gen.op = "generate_content" /\ gen.use_cache /\ gen.hit
    /\ ~gen.called
    /\ InCache(cache, gen.prompt) /\ gen.result = CacheGet(cache, gen.prompt)

\* every response the cache holds is a text of the collaborator
StoredAreTexts ==
    \A i \in 1..Len(cache) : cache[i].response \notin {None, APOLOGY, ""}

\* a generate_content step changes the cache only by storing, under its
\* prompt, the non-empty text the collaborator returned to a call with
\* use_cache; a failure, the apology and a call without use_cache leave the
\* cache as it is
StoresOnlySuccess ==
    gen'.op = "generate_content"
        => /\ (gen'.result \in {None, APOLOGY} \/ ~gen'.use_cache) => cache' = cache
           /\ cache' # cache
                => /\ gen'.called /\ gen'.use_cache
                   /\ InCache(cache', gen'.prompt)
                   /\ CacheGet(cache', gen'.prompt) = gen'.result
                   /\ \A q \in Keys(cache') \ {gen'.prompt} :
                         InCache(cache, q) /\ CacheGet(cache', q) = CacheGet(cache, q)

\* this call follows a failed call with the same prompt
AfterFailedCall ==
    /\ gen.op = "generate_content" /\ gen.called /\ gen.result = None
    /\ gen'.op = "generate_content" /\ gen'.prompt = gen.prompt

\* C30: only successful, non-empty collaborator responses are ever stored in
\* the cache: a failure (None), the apology returned for an empty output and
\* any call with use_cache disabled never add or change an entry, so after a
\* failed call the next call with the identical prompt calls the
\* collaborator again.
C30_FailuresNotCached ==
    /\ []StoredAreTexts
    /\ [][StoresOnlySuccess /\ (AfterFailedCall => gen'.called)]_vars

\* C30 as amended: as C30, the last part being: after a failed call the next
\* call with the identical prompt calls the collaborator again unless it
\* uses the cache and the prompt has an entry from an earlier successful call
\* (the failed call was then made with use_cache disabled).
C30_FailuresNotCachedAmended ==
    /\ []StoredAreTexts
    /\ [][/\ StoresOnlySuccess
          /\ (AfterFailedCall /\ ~(gen'.use_cache /\ InCache(cache, gen.prompt)))
                => gen'.called
          /\ (AfterFailedCall /\ gen'.use_cache /\ InCache(cache, gen.prompt))
                => ~gen.use_cache /\ ~gen'.called
                      /\ gen'.result = CacheGet(cache, gen.prompt)]_vars

\* C30 witness: a call with use_cache failed on a prompt that has no entry
\* and left none, in a cache that holds other entries.
C30_Witness ==
    /\ gen.op = "generate_content" /\ gen.use_cache
    /\ gen.called /\ gen.result = None
    /\ ~InCache(cache, gen.prompt)
    /\ cache # << >>

(***************************************************************************)
(* SpecThreads: requests served concurrently (Flask's server is threaded), *)
(* all on the singleton GeminiService of get_gemini_service, so all on one *)
(* cache.  The code takes no lock; a thread can be preempted between any   *)
(* two of the dict operations of generate_content and _add_to_cache.       *)
(***************************************************************************)
NThreads == 2
Threads == 1..NThreads
ThreadPrompts == {1, _cache_max_size + 1, _cache_max_size + 2}
ThreadReplies == {[kind |-> "text", text |-> " Great pick! "],
                  [kind |-> "rate_limit", text |-> ""]}

Idle == [prompt |-> 0, reply |-> [kind |-> "none", text |-> ""],
         result |-> None, key |-> 0, error |-> "none"]

\* get_gemini_service(): one instance, one cache, here after 99 or 100
\* successful calls
InitThreads ==
    /\ \E n \in {_cache_max_size - 1, _cache_max_size} :
         /\ cache = WarmCache(n)
         /\ inserted_at = [p \in 1..n |-> p]
    /\ clock = _cache_max_size
    /\ gen = NoCall
    /\ pc = [t \in Threads |-> "idle"]
    /\ tl = [t \in Threads |-> Idle]
    /\ NoDiversity /\ NoStore

\* a request enters generate_content(prompt), use_cache defaulted to True
Enter(t, prompt, reply) ==
    /\ pc[t] = "idle"
    /\ pc' = [pc EXCEPT ![t] = "line80"]
    /\ tl' = [tl EXCEPT ![t] = [Idle EXCEPT !.prompt = prompt, !.reply = reply]]
    /\ UNCHANGED <<geminiVars, notGemini>>

\* line 80: if use_cache and prompt in self._cache
Lookup(t) ==
    /\ pc[t] = "line80"
    /\ pc' = [pc EXCEPT ![t] = IF InCache(cache, tl[t].prompt) THEN "line81" ELSE "line85"]
    /\ UNCHANGED <<geminiVars, tl, notGemini>>

\* line 81: return self._cache[prompt]; outside the try, a KeyError leaves
\* generate_content
ReadHit(t) ==
    /\ pc[t] = "line81"
    /\ IF InCache(cache, tl[t].prompt)
       THEN /\ tl' = [tl EXCEPT ![t].result = CacheGet(cache, tl[t].prompt)]
            /\ pc' = [pc EXCEPT ![t] = "returned"]
       ELSE /\ tl' = [tl EXCEPT ![t].error = "KeyError at self._cache[prompt]"]
            /\ pc' = [pc EXCEPT ![t] = "raised"]
    /\ UNCHANGED <<geminiVars, notGemini>>

\* lines 85-122 up to the call of _add_to_cache
Call(t) ==
    /\ pc[t] = "line85"
    /\ LET reply == tl[t].reply
           result == extract_text(reply)
       IN  IF reply.kind \in {"rate_limit", "exception"}
           THEN /\ tl' = [tl EXCEPT ![t].result = None]
                /\ pc' = [pc EXCEPT ![t] = "returned"]
           ELSE IF result # ""
           THEN /\ tl' = [tl EXCEPT ![t].result = result]
                /\ pc' = [pc EXCEPT ![t] = "line126"]
           ELSE /\ tl' = [tl EXCEPT ![t].result = APOLOGY]
                /\ pc' = [pc EXCEPT ![t] = "returned"]
    /\ UNCHANGED <<geminiVars, notGemini>>

\* line 126: if len(self._cache) >= self._cache_max_size
SizeCheck(t) ==
    /\ pc[t] = "line126"
    /\ pc' = [pc EXCEPT ![t] = IF Len(cache) >= _cache_max_size THEN "line128" ELSE "line129"]
    /\ UNCHANGED <<geminiVars, tl, notGemini>>

\* line 128, the argument: next(iter(self._cache))
OldestKey(t) ==
    /\ pc[t] = "line128"
    /\ IF cache # << >>
       THEN /\ tl' = [tl EXCEPT ![t].key = first_key(cache)]
            /\ pc' = [pc EXCEPT ![t] = "line128pop"]
       ELSE /\ tl' = [tl EXCEPT ![t].error = "StopIteration at next(iter(self._cache))",
                                ![t].result = None]
            /\ pc' = [pc EXCEPT ![t] = "returned"]
    /\ UNCHANGED <<geminiVars, notGemini>>

\* line 128, the call: self._cache.pop(key); its KeyError is caught at line
\* 113 and generate_content returns None
Pop(t) ==
    /\ pc[t] = "line128pop"
    /\ IF InCache(cache, tl[t].key)
       THEN /\ cache' = DictPop(cache, tl[t].key)
            /\ pc' = [pc EXCEPT ![t] = "line129"]
            /\ tl' = tl
       ELSE /\ cache' = cache
            /\ tl' = [tl EXCEPT ![t].error = "KeyError at self._cache.pop",
                                ![t].result = None]
            /\ pc' = [pc EXCEPT ![t] = "returned"]
    /\ UNCHANGED <<inserted_at, clock, gen, notGemini>>

\* line 129: self._cache[prompt] = response, then line 109: return result
Insert(t) ==
    /\ pc[t] = "line129"
    /\ cache' = DictSet(cache, tl[t].prompt, tl[t].result)
    /\ pc' = [pc EXCEPT ![t] = "returned"]
    /\ UNCHANGED <<inserted_at, clock, gen, tl, notGemini>>

NextThreads ==
    \E t \in Threads :
        \/ \E prompt \in ThreadPrompts, reply \in ThreadReplies : Enter(t, prompt, reply)
        \/ Lookup(t)
        \/ ReadHit(t)
        \/ Call(t)
        \/ SizeCheck(t)
        \/ OldestKey(t)
        \/ Pop(t)
        \/ Insert(t)

SpecThreads == InitThreads /\ [][NextThreads]_vars

\* C3: whatever the interleaving of concurrent generate_content calls, the
\* cache never holds more than 100 entries and no cache operation fails.
C3_ConcurrentSafe ==
    /\ Len(cache) <= _cache_max_size
    /\ \A t \in DOMAIN tl : tl[t].error = "none"

\* C3, its two halves apart
C3_NeverOverfull == Len(cache) <= _cache_max_size
C3_NoFailedOperation == \A t \in DOMAIN tl : tl[t].error = "none"

(***************************************************************************)
(* SpecDiversity: HybridRecommendationService.get_recommendations_with_    *)
(* diversity, one loop iteration per step.  The list it works on is what   *)
(* recommend_products(user_id, limit*3, strategy='hybrid') returned: at    *)
(* most 3*limit recommendations of distinct products, best first.  A       *)
(* recommendation is written [id, category], id being its hybrid rank.     *)
(***************************************************************************)
MaxLimit == 3
MaxCandidates == 5
Categories == {"A", "B", "C"}
\* diversity_factor in tenths: 0, the default 0.3, and 1.5
DiversityFactors == {0, 3, 15}

Min(a, b) == IF a <= b THEN a ELSE b
Max(a, b) == IF a >= b THEN a ELSE b

\* the lists recommend_products can hand over for a given limit
HybridLists(limit) ==
    UNION {[1..n -> Categories] : n \in 0..Min(3 * limit, MaxCandidates)}
AsRecommendations(cats) == [i \in 1..Len(cats) |-> [id |-> i, category |-> cats[i]]]

\* list(category_recs.keys()): the categories in order of first appearance
RECURSIVE FirstAppearance(_, _)
FirstAppearance(recs, seen) ==
    IF recs = << >> THEN << >>
    ELSE IF Head(recs).category \in seen THEN FirstAppearance(Tail(recs), seen)
    ELSE <<Head(recs).category>>
            \o FirstAppearance(Tail(recs), seen \cup {Head(recs).category})

\* the recommendations of one category, in the order of the list
RECURSIVE Bucket(_, _)
Bucket(recs, c) ==
    IF recs = << >> THEN << >>
    ELSE IF Head(recs).category = c THEN <<Head(recs)>> \o Bucket(Tail(recs), c)
    ELSE Bucket(Tail(recs), c)

\* list.remove(x): drops the first occurrence of x
RECURSIVE ListRemove(_, _)
ListRemove(l, x) ==
    IF l = << >> THEN << >>
    ELSE IF Head(l) = x THEN Tail(l) ELSE <<Head(l)>> \o ListRemove(Tail(l), x)

\* any(category_recs.values())
AnyBucket(cr) == \E c \in DOMAIN cr : cr[c] # << >>

\* l[:n]
Take(l, n) == SubSeq(l, 1, Min(n, Len(l)))

InitDiversity ==
    /\ cache = << >> /\ inserted_at = << >> /\ clock = WarmSize /\ gen = NoCall
    /\ pc = NoThreads /\ tl = NoThreads
    /\ NoStore
    /\ dpc = "line201"
    /\ \E limit \in 1..MaxLimit, f \in DiversityFactors :
       \E cats \in HybridLists(limit) :
         dargs = [limit |-> limit, diversity_factor |-> f,
                  recommendations |-> AsRecommendations(cats)]
    /\ category_recs = << >> /\ categories = << >>
    /\ items_per_category = 0 /\ category_index = 0 /\ diverse_recs = << >>

\* lines 203-220: group by category, list the categories, set the counters
GroupByCategory ==
    /\ dpc = "line201"
    /\ \E cats \in {FirstAppearance(dargs.recommendations, {})} :
         /\ categories' = cats
         /\ category_recs' = [c \in {cats[i] : i \in 1..Len(cats)} |->
                                Bucket(dargs.recommendations, c)]
         /\ items_per_category' =
              IF dargs.diversity_factor > 0 /\ Len(cats) > 1
              THEN Max(1, (dargs.limit * dargs.diversity_factor) \div (10 * Len(cats)))
              ELSE dargs.limit
    /\ diverse_recs' = << >>
    /\ category_index' = 0
    /\ dpc' = "line221"
    /\ UNCHANGED <<dargs, notDiversity>>

\* line 222: category = categories[category_index % len(categories)]
pick_category(cats, index) == cats[(index % Len(cats)) + 1]

\* mutant: the loop body without lines 230-233, an emptied category stays
\* in the list
RoundRobinStep_keep_empty ==
    /\ dpc = "line221"
    /\ Len(diverse_recs) < dargs.limit /\ AnyBucket(category_recs)
    /\ \E category \in {pick_category(categories, category_index)} :
         /\ diverse_recs' = IF category_recs[category] # << >>
                            THEN Append(diverse_recs, Head(category_recs[category]))
                            ELSE diverse_recs
         /\ category_recs' = IF category_recs[category] # << >>
                             THEN [category_recs EXCEPT ![category] = Tail(@)]
                             ELSE category_recs
         /\ category_index' = category_index + 1
    /\ dpc' = "line221"
    /\ UNCHANGED <<dargs, categories, items_per_category, notDiversity>>

\* lines 221-233: one iteration of the while loop
RoundRobinStep ==
    /\ dpc = "line221"
    /\ Len(diverse_recs) < dargs.limit /\ AnyBucket(category_recs)
    /\ \E category \in {pick_category(categories, category_index)} :
       \E popped \in {IF category_recs[category] # << >>
                      THEN [category_recs EXCEPT ![category] = Tail(@)]
                      ELSE category_recs} :
         /\ diverse_recs' = IF category_recs[category] # << >>
                            THEN Append(diverse_recs, Head(category_recs[category]))
                            ELSE diverse_recs
         /\ category_recs' = popped
         /\ category_index' = category_index + 1
         /\ IF popped[category] = << >>
            THEN /\ categories' = ListRemove(categories, category)
                 /\ dpc' = IF categories' = << >> THEN "line235" ELSE "line221"
            ELSE /\ categories' = categories
                 /\ dpc' = "line221"
    /\ UNCHANGED <<dargs, items_per_category, notDiversity>>

\* the while condition fails: fall through to line 235
LoopExit ==
    /\ dpc = "line221"
    /\ ~(Len(diverse_recs) < dargs.limit /\ AnyBucket(category_recs))
    /\ dpc' = "line235"
    /\ UNCHANGED <<dargs, category_recs, categories, items_per_category,
                   category_index, diverse_recs, notDiversity>>

\* line 235: return diverse_recs[:limit]
ReturnDiverse ==
    /\ dpc = "line235"
    /\ diverse_recs' = Take(diverse_recs, dargs.limit)
    /\ dpc' = "returned"
    /\ UNCHANGED <<dargs, category_recs, categories, items_per_category,
                   category_index, notDiversity>>

NextDiversity ==
    \/ GroupByCategory
    \/ RoundRobinStep
    \/ LoopExit
    \/ ReturnDiverse

SpecDiversity == InitDiversity /\ [][NextDiversity]_vars

\* the categories of the candidates, and how many of a category are in a list
CandidateCategories == {dargs.recommendations[i].category :
                            i \in 1..Len(dargs.recommendations)}
CountOf(l, c) == Cardinality({i \in 1..Len(l) : l[i].category = c})

\* C4: when limit is at least the number of categories among the candidates,
\* the returned list holds at least one item of every category that has a
\* candidate.
C4_EveryCategoryServed ==
    (dpc = "returned" /\ dargs.limit >= Cardinality(CandidateCategories))
        => \A c \in CandidateCategories : CountOf(diverse_recs, c) >= 1

\* C5: strict round-robin: after every selection, two categories that both
\* still have candidates left have given numbers of items that differ by at
\* most one.
C5_StrictRoundRobin ==
    dpc \in {"line221", "line235"}
        => \A c1, c2 \in DOMAIN category_recs :
              (category_recs[c1] # << >> /\ category_recs[c2] # << >>)
                  => CountOf(diverse_recs, c1) - CountOf(diverse_recs, c2) <= 1

\* The method runs in one thread from line 201 to its return: every step
\* that can be taken is taken.
SpecDiversityLive == SpecDiversity /\ WF_vars(NextDiversity)

\* the remaining categories are exactly the categories with a non-empty
\* bucket, each listed once
RemainingExact ==
    /\ {categories[i] : i \in 1..Len(categories)}
          = {c \in DOMAIN category_recs : category_recs[c] # << >>}
    /\ \A i, j \in 1..Len(categories) : categories[i] = categories[j] => i = j

\* what the round-robin loop keeps and returns
DiversityShape ==
    /\ dpc = "line221" => RemainingExact
    /\ dpc = "returned"
         => /\ Len(diverse_recs) = Min(dargs.limit, Len(dargs.recommendations))
            /\ \A i \in 1..Len(diverse_recs) :
                  \E k \in 1..Len(dargs.recommendations) :
                     diverse_recs[i] = dargs.recommendations[k]
            /\ \A i, j \in 1..Len(diverse_recs) :
                  i < j => /\ diverse_recs[i].id # diverse_recs[j].id
                           /\ diverse_recs[i].category = diverse_recs[j].category
                                 => diverse_recs[i].id < diverse_recs[j].id

\* C26: the round-robin loop of get_recommendations_with_diversity always
\* terminates; it returns exactly min(limit, number of hybrid candidates)
\* items, no candidate twice, the candidates of a category in their original
\* order; and at the head of every iteration the list of remaining categories
\* holds exactly the categories whose bucket is not empty.
C26_RoundRobinTerminates == []DiversityShape /\ <>(dpc = "returned")

\* C26 witness: the call returned limit = 3 of five candidates after a
\* category ran empty inside the loop while another still has candidates.
C26_Witness ==
    /\ dpc = "returned"
    /\ Len(dargs.recommendations) = 5 /\ Len(diverse_recs) = 3
    /\ \E c1, c2 \in DOMAIN category_recs :
          category_recs[c1] = << >> /\ category_recs[c2] # << >>

(***************************************************************************)
(* The database the engine reads: users, products, user_interactions.     *)
(* Prices are whole currency units, ratings are tenths of a star, a        *)
(* rating of 0 on an interaction row is NULL.                              *)
(***************************************************************************)
NoBrand == "<no brand>"

\* The products table (scripts/init_database.py seeds rows of this shape);
\* whether product 4 is available is left to the initial state.
Catalog(p4_available) ==
    <<[id |-> 1, name |-> "Acme Phone", category |-> "Electronics",
       subcategory |-> "Phones", brand |-> "Acme", price |-> 100,
       average_rating |-> 45, tags |-> {"smart", "5g"}, is_available |-> TRUE],
      [id |-> 2, name |-> "Zen Laptop", category |-> "Electronics",
       subcategory |-> "Laptops", brand |-> "Zen", price |-> 200,
       average_rating |-> 40, tags |-> {"smart", "fast", "light", "pro"},
       is_available |-> TRUE],
      [id |-> 3, name |-> "Acme Novel", category |-> "Books",
       subcategory |-> "Fiction", brand |-> "Acme", price |-> 20,
       average_rating |-> 50, tags |-> {}, is_available |-> TRUE],
      [id |-> 4, name |-> "Zen Phone", category |-> "Electronics",
       subcategory |-> "Phones", brand |-> "Zen", price |-> 120,
       average_rating |-> 30, tags |-> {"5g"}, is_available |-> p4_available],
      [id |-> 5, name |-> "Kettle", category |-> "Home",
       subcategory |-> "Kitchen", brand |-> NoBrand, price |-> 50,
       average_rating |-> 0, tags |-> {"steel"}, is_available |-> TRUE],
      [id |-> 6, name |-> "Notebook", category |-> "Books",
       subcategory |-> "Stationery", brand |-> NoBrand, price |-> 10,
       average_rating |-> 0, tags |-> {}, is_available |-> TRUE]>>

\* The users table: what the engine reads of a user.
UserTable ==
    <<[id |-> 1, username |-> "ann", preferred_category_list |-> << >>,
       preferred_brand_list |-> << >>],
      [id |-> 2, username |-> "bob", preferred_category_list |-> <<"Electronics">>,
       preferred_brand_list |-> << >>],
      [id |-> 3, username |-> "cy", preferred_category_list |-> <<"Books">>,
       preferred_brand_list |-> <<"Acme">>]>>

\* Rows the user_interactions table may hold; a store holds a subsequence.
InteractionLog ==
    <<[user_id |-> 1, product_id |-> 1, interaction_type |-> "view", rating |-> 0],
      [user_id |-> 2, product_id |-> 1, interaction_type |-> "purchase", rating |-> 0],
      [user_id |-> 2, product_id |-> 2, interaction_type |-> "rating", rating |-> 5],
      [user_id |-> 1, product_id |-> 2, interaction_type |-> "purchase", rating |-> 0],
      [user_id |-> 2, product_id |-> 3, interaction_type |-> "purchase", rating |-> 0],
      [user_id |-> 1, product_id |-> 1, interaction_type |-> "rating", rating |-> 4],
      [user_id |-> 2, product_id |-> 1, interaction_type |-> "view", rating |-> 0],
      [user_id |-> 2, product_id |-> 4, interaction_type |-> "purchase", rating |-> 0],
      [user_id |-> 1, product_id |-> 3, interaction_type |-> "cart_remove", rating |-> 0]>>

\* at most MaxRows of the rows, in the order of the log
MaxRows == 5
RECURSIVE Pick(_, _, _)
Pick(log, chosen, i) ==
    IF i > Len(log) THEN << >>
    ELSE (IF i \in chosen THEN <<log[i]>> ELSE << >>) \o Pick(log, chosen, i + 1)
Stores ==
    {Pick(InteractionLog, chosen, 1) :
        chosen \in {c \in SUBSET (1..Len(InteractionLog)) : Cardinality(c) <= MaxRows}}

\* ids the callers name: the users and products there are, and one there is not
UserIds == 1..(Len(UserTable) + 1)
ProductIds == 1..(Len(Catalog(TRUE)) + 1)

\* User.query.get / Product.query.get: the row, or None
HasUser(user_id) == user_id \in DOMAIN users
HasProduct(product_id) == product_id \in DOMAIN products

\* fixed point: thousandths
SCALE == 10 * 10 * 10
Abs(x) == IF x < 0 THEN -x ELSE x

(***************************************************************************)
(* Python lists, dicts and sorting                                         *)
(***************************************************************************)
\* a dict is the sequence of its items [k, v] in insertion order
DKeys(d) == {d[i].k : i \in 1..Len(d)}
DGet(d, k) == d[CHOOSE i \in 1..Len(d) : d[i].k = k].v
\* d[k] += x on a defaultdict of numbers
DAdd(d, k, x) ==
    IF k \in DKeys(d)
    THEN [i \in 1..Len(d) |-> IF d[i].k = k THEN [k |-> k, v |-> d[i].v + x] ELSE d[i]]
    ELSE Append(d, [k |-> k, v |-> x])

\* sorted(l, key=..., reverse=True) and list.sort(key=..., reverse=True):
\* descending by key, equal keys keep their order.  keys[i] is the key of l[i].
SortedDesc(l, keys) ==
    LET n == Len(l)
        rank(i) == Cardinality({j \in 1..n :
                        keys[j] > keys[i] \/ (keys[j] = keys[i] /\ j < i)}) + 1
    IN  [r \in 1..n |-> l[CHOOSE i \in 1..n : rank(i) = r]]
Scores(l) == [i \in 1..Len(l) |-> l[i].score]
\* l.sort(key=lambda x: x[1], reverse=True) of a list of (_, score, _)
SortedByScore(l) == SortedDesc(l, Scores(l))
\* sorted(d.items(), key=lambda x: x[1], reverse=True) of a dict d
SortedByValue(d) == SortedDesc(d, [i \in 1..Len(d) |-> d[i].v])

\* [x for x in l if pred]: the rows of l at the indices in keep, in order
RECURSIVE Filter(_, _, _)
Filter(l, keep, i) ==
    IF i > Len(l) THEN << >>
    ELSE (IF i \in keep THEN <<l[i]>> ELSE << >>) \o Filter(l, keep, i + 1)

(***************************************************************************)
(* UserInteraction, src/app/models/interaction.py                          *)
(***************************************************************************)
\* mutant: removals count like any unknown type
weight_removals_default(interaction_type) ==
    CASE interaction_type = "purchase" -> 10
      [] interaction_type = "rating" -> 8
      [] interaction_type = "review" -> 8
      [] interaction_type = "cart_add" -> 6
      [] interaction_type = "wishlist_add" -> 5
      [] interaction_type = "click" -> 3
      [] interaction_type = "view" -> 2
      [] OTHER -> 1

\* the dict `weights` of get_interaction_weight, lines 78-89
interaction_weights ==
    <<[k |-> "purchase", v |-> 10],
      [k |-> "rating", v |-> 8],
      [k |-> "review", v |-> 8],
      [k |-> "cart_add", v |-> 6],
      [k |-> "wishlist_add", v |-> 5],
      [k |-> "click", v |-> 3],
      [k |-> "view", v |-> 2],
      [k |-> "search", v |-> 1],
      [k |-> "cart_remove", v |-> 0 - 2],
      [k |-> "wishlist_remove", v |-> 0 - 1]>>

\* UserInteraction.get_interaction_weight: weights.get(interaction_type, 1)
get_interaction_weight(interaction_type) ==
    IF interaction_type \in DKeys(interaction_weights)
    THEN DGet(interaction_weights, interaction_type)
    ELSE 1

\* UserInteraction.interaction_types
interaction_types ==
    <<"view", "purchase", "cart_add", "cart_remove", "wishlist_add",
      "wishlist_remove", "rating", "review", "search", "click">>

\* UserInteraction.query.filter_by(user_id=user_id).all()
RowsOf(user_id) ==
    Filter(interactions, {i \in 1..Len(interactions) : interactions[i].user_id = user_id}, 1)

(***************************************************************************)
(* CollaborativeFilteringService, collaborative_filtering.py               *)
(***************************************************************************)
\* CollaborativeFilteringService(min_common_interactions=2)
min_common_interactions == 2

\* get_user_interaction_matrix: {product_id: weighted score}
RECURSIVE interaction_scores(_, _)
interaction_scores(rows, acc) ==
    IF rows = << >> THEN acc
    ELSE interaction_scores(Tail(rows),
            DAdd(acc, Head(rows).product_id,
                 get_interaction_weight(Head(rows).interaction_type) + Head(rows).rating))
get_user_interaction_matrix(user_id) == interaction_scores(RowsOf(user_id), << >>)

\* the GROUP BY ... HAVING query of find_similar_users: the other users with
\* at least min_common_interactions rows on the target's products, by user id
CommonCount(other, target_products) ==
    Cardinality({i \in 1..Len(interactions) :
                    /\ interactions[i].user_id = other
                    /\ interactions[i].product_id \in target_products})
CandidateNeighbours(user_id, target_products) ==
    LET others == {interactions[i].user_id : i \in 1..Len(interactions)} \ {user_id}
        ok == {u \in others : CommonCount(u, target_products) >= min_common_interactions}
    IN  Filter([u \in 1..(Len(UserTable) + 1) |-> u], ok, 1)

\* the sum over a set of products of f[p]
RECURSIVE SumOver(_, _)
SumOver(f, S) ==
    IF S = {} THEN 0
    ELSE LET p == CHOOSE q \in S : \A r \in S : q <= r
         IN  f[p] + SumOver(f, S \ {p})

\* the integer square root of y, lo <= sqrt(y) <= hi
RECURSIVE ISqrt(_, _, _)
ISqrt(y, lo, hi) ==
    IF lo = hi THEN lo
    ELSE LET mid == (lo + hi + 1) \div 2
         IN  IF mid * mid <= y THEN ISqrt(y, mid, hi) ELSE ISqrt(y, lo, mid - 1)

\* (a * b) \div c for a, b, c >= 0, without the product a * b
MulDiv(a, b, c) == (a \div c) * b + ((a % c) * b) \div c

\* dot / (norm * norm) in thousandths, truncated toward zero; the cosine of
\* two vectors lies in [-1, 1]
Cosine(dot, target_sq, other_sq) ==
    IF target_sq > 0 /\ other_sq > 0
    THEN LET squares == target_sq * other_sq
             \* dot^2 / (|t|^2 |o|^2) in millionths
             ratio == MulDiv(dot * dot * SCALE, SCALE, squares)
             r == ISqrt(ratio, 0, SCALE)
         IN  IF dot < 0 THEN -r ELSE r
    ELSE 0

\* lines 86-111: the similarity of one other user to the target, thousandths
Similarity(target_interactions, other_interactions) ==
    LET target_products == DKeys(target_interactions)
        other_products == DKeys(other_interactions)
        intersection == Cardinality(target_products \cap other_products)
        union == Cardinality(target_products \cup other_products)
        jaccard_similarity == IF union > 0 THEN (intersection * SCALE) \div union ELSE 0
        common_products == target_products \cap other_products
        t == [p \in common_products |-> DGet(target_interactions, p)]
        o == [p \in common_products |-> DGet(other_interactions, p)]
        dot_product == SumOver([p \in common_products |-> t[p] * o[p]], common_products)
        target_sq == SumOver([p \in common_products |-> t[p] * t[p]], common_products)
        other_sq == SumOver([p \in common_products |-> o[p] * o[p]], common_products)
        cosine_similarity == IF common_products # {}
                             THEN Cosine(dot_product, target_sq, other_sq) ELSE 0
    IN  (4 * jaccard_similarity + 6 * cosine_similarity) \div 10

\* mutant: a user with no interactions is matched against everybody
find_similar_users_no_guard(user_id, limit) ==
    LET others == {interactions[i].user_id : i \in 1..Len(interactions)} \ {user_id}
        all == Filter([u \in 1..(Len(UserTable) + 1) |-> u], others, 1)
    IN  Take([i \in 1..Len(all) |-> [user |-> all[i], score |-> 0]], limit)

\* mutant: the limit is ignored and nobody is found similar
find_similar_users_nobody(user_id, limit) == << >>

\* lines 86-115 of find_similar_users: the candidates scored and sorted
UserSimilarities(similar_users, target_interactions) ==
    [i \in 1..Len(similar_users) |->
        [user |-> similar_users[i],
         score |-> Similarity(target_interactions,
                              get_user_interaction_matrix(similar_users[i]))]]
SimilarFrom(target_interactions, user_id, limit) ==
    IF target_interactions = << >> THEN << >>
    ELSE Take(SortedByScore(
                UserSimilarities(
                    CandidateNeighbours(user_id, DKeys(target_interactions)),
                    target_interactions)),
              limit)

\* CollaborativeFilteringService.find_similar_users: [(user, similarity)]
find_similar_users(user_id, limit) ==
    SimilarFrom(get_user_interaction_matrix(user_id), user_id, limit)

\* the query of _get_popular_products: the available products that have
\* interactions, most interactions first (equal counts by product id), with
\* count(UserInteraction.id) and avg(UserInteraction.rating) over non-NULL
\* ratings (thousandths; 0 stands for the NULL average)
PopularQuery(limit) ==
    LET rowsOn(p) == {i \in 1..Len(interactions) : interactions[i].product_id = p}
        rated(p) == {i \in rowsOn(p) : interactions[i].rating # 0}
        joined == {p \in DOMAIN products : products[p].is_available /\ rowsOn(p) # {}}
        ids == Filter([p \in DOMAIN products |-> p], joined, 1)
        rows == [i \in 1..Len(ids) |->
                   [product |-> ids[i],
                    count |-> Cardinality(rowsOn(ids[i])),
                    avg_rating |->
                        IF rated(ids[i]) = {} THEN 0
                        ELSE (SumOver([j \in rated(ids[i]) |-> interactions[j].rating],
                                      rated(ids[i])) * SCALE)
                                \div Cardinality(rated(ids[i]))]]
    IN  Take(SortedDesc(rows, [i \in 1..Len(rows) |-> rows[i].count]), limit)

\* lines 199-214 of _get_popular_products: the rows of the query as
\* recommendations
PopularFrom(popular) ==
    [i \in 1..Len(popular) |->
        [product |-> popular[i].product,
         score |-> popular[i].count * SCALE + popular[i].avg_rating * 2,
         reason |-> [type |-> "popular_fallback",
                     interaction_count |-> popular[i].count,
                     avg_rating |-> popular[i].avg_rating]]]

\* CollaborativeFilteringService._get_popular_products
_get_popular_products(limit) == PopularFrom(PopularQuery(limit))

\* lines 146-154: the scores the similar users give the products, as
\* [k |-> product, v |-> score, by |-> similarities of the recommenders]
RECURSIVE AddUserScores(_, _, _, _)
AddUserScores(items, similarity_score, excluded, acc) ==
    IF items = << >> THEN acc
    ELSE LET product_id == Head(items).k
             weighted_score == Head(items).v * similarity_score
             next ==
                IF product_id \in excluded THEN acc
                ELSE IF product_id \in DKeys(acc)
                THEN [i \in 1..Len(acc) |->
                        IF acc[i].k = product_id
                        THEN [k |-> product_id, v |-> acc[i].v + weighted_score,
                              by |-> Append(acc[i].by, similarity_score)]
                        ELSE acc[i]]
                ELSE Append(acc, [k |-> product_id, v |-> weighted_score,
                                  by |-> <<similarity_score>>])
         IN  AddUserScores(Tail(items), similarity_score, excluded, next)

RECURSIVE Aggregate(_, _, _)
Aggregate(similar_users, excluded, acc) ==
    IF similar_users = << >> THEN acc
    ELSE Aggregate(Tail(similar_users), excluded,
            AddUserScores(get_user_interaction_matrix(Head(similar_users).user),
                          Head(similar_users).score, excluded, acc))

RECURSIVE SumSeq(_)
SumSeq(l) == IF l = << >> THEN 0 ELSE Head(l) + SumSeq(Tail(l))

\* lines 160-176: product details of the first `limit` scored products, the
\* unavailable and the unknown ones dropped
CollabDetails(sorted_products, n_similar) ==
    LET top == sorted_products
        keep == {i \in 1..Len(top) :
                    HasProduct(top[i].k) /\ products[top[i].k].is_available}
        kept == Filter(top, keep, 1)
    IN  [i \in 1..Len(kept) |->
            [product |-> kept[i].k,
             score |-> kept[i].v,
             reason |-> [type |-> "collaborative",
                         score |-> kept[i].v,
                         similar_users_count |-> n_similar,
                         recommenders_count |-> Len(kept[i].by),
                         avg_recommender_similarity |->
                             SumSeq(kept[i].by) \div Len(kept[i].by)]]]

\* lines 136-177 of recommend_products, given the similar users found
CollabFrom(similar_users, user_id, limit, exclude_interacted) ==
    LET target_user_products ==
            IF exclude_interacted
            THEN {interactions[i].product_id :
                    i \in {j \in 1..Len(interactions) : interactions[j].user_id = user_id}}
            ELSE {}
    IN  IF similar_users = << >> THEN _get_popular_products(limit)
        ELSE CollabDetails(
                Take(SortedByValue(Aggregate(similar_users, target_user_products, << >>)),
                     limit),
                Len(similar_users))

\* CollaborativeFilteringService.recommend_products
collaborative_recommend_products(user_id, limit, exclude_interacted) ==
    CollabFrom(find_similar_users(user_id, 10), user_id, limit, exclude_interacted)

(***************************************************************************)
(* ContentBasedFilteringService, content_based_filtering.py                *)
(***************************************************************************)
\* Counter.most_common(n): by count descending, first-counted first
most_common(counter, n) ==
    Take(SortedDesc(counter, [i \in 1..Len(counter) |-> counter[i].v]), n)

\* lines 50-65: the counters and the price points of the rows whose weight is
\* positive; rows of unknown products are not in the join
RECURSIVE AddAll(_, _, _)
AddAll(counter, keys, weight) ==
    IF keys = {} THEN counter
    ELSE LET k == CHOOSE x \in keys : TRUE
         IN  AddAll(DAdd(counter, k, weight), keys \ {k}, weight)

\* mutant: every row of the user counts, whatever its weight
RECURSIVE Profile_all_rows(_, _)
Profile_all_rows(rows, acc) ==
    IF rows = << >> THEN acc
    ELSE LET row == Head(rows)
             weight == get_interaction_weight(row.interaction_type)
             product == products[row.product_id]
         IN  Profile_all_rows(Tail(rows),
                [categories |-> DAdd(acc.categories, product.category, weight),
                 subcategories |-> DAdd(acc.subcategories, product.subcategory, weight),
                 brands |-> IF product.brand # NoBrand
                            THEN DAdd(acc.brands, product.brand, weight)
                            ELSE acc.brands,
                 price_points |-> Append(acc.price_points, product.price),
                 tags |-> AddAll(acc.tags, product.tags, weight)])

RECURSIVE Profile(_, _)
Profile(rows, acc) ==
    IF rows = << >> THEN acc
    ELSE LET row == Head(rows)
             weight == get_interaction_weight(row.interaction_type)
             product == products[row.product_id]
         IN  IF HasProduct(row.product_id) /\ weight > 0
             THEN Profile(Tail(rows),
                    [categories |-> DAdd(acc.categories, product.category, weight),
                     subcategories |-> DAdd(acc.subcategories, product.subcategory, weight),
                     brands |-> IF product.brand # NoBrand
                                THEN DAdd(acc.brands, product.brand, weight)
                                ELSE acc.brands,
                     price_points |-> Append(acc.price_points, product.price),
                     tags |-> AddAll(acc.tags, product.tags, weight)])
             ELSE Profile(Tail(rows), acc)

RECURSIVE MinSeq(_)
MinSeq(l) == IF Len(l) = 1 THEN l[1] ELSE Min(Head(l), MinSeq(Tail(l)))
RECURSIVE MaxSeq(_)
MaxSeq(l) == IF Len(l) = 1 THEN l[1] ELSE Max(Head(l), MaxSeq(Tail(l)))
SeqToSet(l) == {l[i] : i \in 1..Len(l)}

\* lines 60-88 of extract_user_preferences, given the counters.  price_range.avg
\* is in thousandths; price_range.unbounded says that max is float('inf').
PreferencesOf(user_id, acc) ==
    [preferred_categories |-> most_common(acc.categories, 5),
     preferred_subcategories |-> most_common(acc.subcategories, 5),
     preferred_brands |-> most_common(acc.brands, 5),
     preferred_tags |-> most_common(acc.tags, 10),
     price_range |->
        [min |-> IF acc.price_points # << >> THEN MinSeq(acc.price_points) ELSE 0,
         max |-> IF acc.price_points # << >> THEN MaxSeq(acc.price_points) ELSE 0,
         unbounded |-> acc.price_points = << >>,
         avg |-> IF acc.price_points # << >>
                 THEN (SumSeq(acc.price_points) * SCALE) \div Len(acc.price_points)
                 ELSE 0],
     explicit_preferences |->
        [categories |-> IF HasUser(user_id)
                        THEN SeqToSet(users[user_id].preferred_category_list) ELSE {},
         brands |-> IF HasUser(user_id)
                    THEN SeqToSet(users[user_id].preferred_brand_list) ELSE {}]]

\* ContentBasedFilteringService.extract_user_preferences
extract_user_preferences(user_id) ==
    PreferencesOf(user_id,
        Profile(RowsOf(user_id),
                [categories |-> << >>, subcategories |-> << >>, brands |-> << >>,
                 price_points |-> << >>, tags |-> << >>]))

\* price_range['min'] <= product.price <= price_range['max']
InPriceRange(price, price_range) ==
    price_range.min <= price /\ (price_range.unbounded \/ price <= price_range.max)

\* mutant: the category, brand and tag points are not capped
SubScores_uncapped(product, preferences) ==
    LET pc_ == preferences.preferred_categories
        ps == preferences.preferred_subcategories
        pb == preferences.preferred_brands
        tag_overlap == Cardinality(product.tags \cap DKeys(preferences.preferred_tags))
    IN  [category |->
            IF product.category \in DKeys(pc_)
            THEN DGet(pc_, product.category) * 3 * SCALE ELSE 0,
         subcategory |->
            IF product.subcategory \in DKeys(ps)
            THEN (DGet(ps, product.subcategory) * 15 * SCALE) \div 10 ELSE 0,
         brand |->
            IF product.brand # NoBrand /\ product.brand \in DKeys(pb)
            THEN DGet(pb, product.brand) * 2 * SCALE ELSE 0,
         price |-> IF InPriceRange(product.price, preferences.price_range)
                   THEN 15 * SCALE ELSE 0,
         tags |-> tag_overlap * 3 * SCALE,
         rating |-> IF product.average_rating > 0
                    THEN (product.average_rating * 10 * SCALE) \div 50 ELSE 0]

\* the six sub-scores of calculate_product_similarity, thousandths
SubScores(product, preferences) ==
    LET pc_ == preferences.preferred_categories
        ps == preferences.preferred_subcategories
        pb == preferences.preferred_brands
        price_range == preferences.price_range
        price_diff == Abs(product.price * SCALE - price_range.avg)
        price_range_size == price_range.max - price_range.min
        tag_overlap == Cardinality(product.tags \cap DKeys(preferences.preferred_tags))
    IN  [category |->
            IF product.category \in DKeys(pc_)
            THEN Min(DGet(pc_, product.category) * 3 * SCALE, 30 * SCALE)
            ELSE IF product.category \in preferences.explicit_preferences.categories
            THEN 20 * SCALE ELSE 0,
         subcategory |->
            IF product.subcategory \in DKeys(ps)
            THEN Min((DGet(ps, product.subcategory) * 15 * SCALE) \div 10, 15 * SCALE)
            ELSE 0,
         brand |->
            IF product.brand # NoBrand /\ product.brand \in DKeys(pb)
            THEN Min(DGet(pb, product.brand) * 2 * SCALE, 20 * SCALE)
            ELSE IF product.brand # NoBrand
                    /\ product.brand \in preferences.explicit_preferences.brands
            THEN 15 * SCALE ELSE 0,
         price |->
            IF InPriceRange(product.price, price_range)
            THEN IF price_range.unbounded THEN 15 * SCALE
                 ELSE IF price_range_size > 0
                 THEN 15 * (SCALE - Min(price_diff \div price_range_size, SCALE))
                 ELSE 15 * SCALE
            ELSE 0,
         tags |-> IF tag_overlap > 0 THEN Min(tag_overlap * 3 * SCALE, 10 * SCALE) ELSE 0,
         rating |-> IF product.average_rating > 0
                    THEN (product.average_rating * 10 * SCALE) \div 50 ELSE 0]

\* ContentBasedFilteringService.calculate_product_similarity, thousandths
calculate_product_similarity(product, preferences) ==
    LET s == SubScores(product, preferences)
        score == s.category + s.subcategory + s.brand + s.price + s.tags + s.rating
        max_score == 30 + 15 + 20 + 15 + 10 + 10
    IN  Min((score * 100) \div max_score, 100 * SCALE)

\* lines 174-202: the products the query returns, in id order
ContentCandidates(user_id, exclude_interacted, preferences) ==
    LET interacted_ids == {interactions[i].product_id :
                            i \in {j \in 1..Len(interactions) :
                                        interactions[j].user_id = user_id}}
        preferred_categories == DKeys(preferences.preferred_categories)
        all_categories == preferred_categories
                            \cup preferences.explicit_preferences.categories
        price_range == preferences.price_range
        ok == {p \in DOMAIN products :
                /\ products[p].is_available
                /\ (exclude_interacted => p \notin interacted_ids)
                /\ (preferred_categories # {} => products[p].category \in all_categories)
                /\ (price_range.unbounded
                      \/ (price_range.max > 0 =>
                            /\ 2 * products[p].price >= price_range.min
                            /\ 2 * products[p].price <= 3 * price_range.max))}
    IN  Filter([p \in DOMAIN products |-> p], ok, 1)

\* lines 204-223 of recommend_products: the candidates scored and sorted
ContentScored(candidates, preferences) ==
    [i \in 1..Len(candidates) |->
        [product |-> candidates[i],
         score |-> calculate_product_similarity(products[candidates[i]], preferences),
         reason |-> [type |-> "content_based",
                     matched_category |->
                        products[candidates[i]].category
                            \in DKeys(preferences.preferred_categories),
                     matched_brand |->
                        products[candidates[i]].brand # NoBrand
                            /\ products[candidates[i]].brand
                                    \in DKeys(preferences.preferred_brands),
                     in_price_range |->
                        InPriceRange(products[candidates[i]].price, preferences.price_range),
                     rating |-> products[candidates[i]].average_rating]]]
ContentFrom(preferences, user_id, limit, exclude_interacted) ==
    Take(SortedByScore(
            ContentScored(ContentCandidates(user_id, exclude_interacted, preferences),
                          preferences)),
         limit)

\* ContentBasedFilteringService.recommend_products
content_recommend_products(user_id, limit, exclude_interacted) ==
    ContentFrom(extract_user_preferences(user_id), user_id, limit, exclude_interacted)

\* ContentBasedFilteringService.find_similar_products (thousandths)
find_similar_products(product_id, limit) ==
    IF ~HasProduct(product_id) THEN << >>
    ELSE
    LET source_product == products[product_id]
        ok == {p \in DOMAIN products :
                /\ p # product_id
                /\ products[p].is_available
                /\ \/ products[p].category = source_product.category
                   \/ products[p].brand = source_product.brand}
        similar_products == Filter([p \in DOMAIN products |-> p], ok, 1)
        price_diff(product) == Abs(product.price - source_product.price)
        product_scores ==
            [i \in 1..Len(similar_products) |->
                LET product == products[similar_products[i]] IN
                [product |-> product.id,
                 score |->
                    (IF product.category = source_product.category THEN 40 * SCALE ELSE 0)
                    + (IF product.subcategory = source_product.subcategory
                       THEN 20 * SCALE ELSE 0)
                    + (IF product.brand # NoBrand /\ product.brand = source_product.brand
                       THEN 25 * SCALE ELSE 0)
                    + (IF source_product.price > 0
                            /\ 10 * price_diff(product) < 3 * source_product.price
                       THEN 15 * SCALE
                            - (50 * price_diff(product) * SCALE) \div source_product.price
                       ELSE 0),
                 reason |-> [type |-> "similar_product",
                             same_category |-> product.category = source_product.category,
                             same_brand |-> product.brand # NoBrand
                                            /\ product.brand = source_product.brand,
                             price_similarity |->
                                IF source_product.price > 0
                                THEN 100 * SCALE - (100 * price_diff(product) * SCALE)
                                                        \div source_product.price
                                ELSE 0]]]
    IN  Take(SortedDesc(product_scores, Scores(product_scores)), limit)

(***************************************************************************)
(* HybridRecommendationService, hybrid_recommendation.py.  A weight is in  *)
(* tenths, so a combined score is in ten-thousandths.                      *)
(***************************************************************************)
\* HybridRecommendationService(collaborative_weight=0.6, content_weight=0.4)
DefaultWeights == [collaborative_weight |-> 6, content_weight |-> 4]

\* mutant: an all-equal list is normalised to 0
normalize_scores_zero(recommendations) ==
    [i \in 1..Len(recommendations) |-> [recommendations[i] EXCEPT !.score = 0]]

\* HybridRecommendationService._normalize_scores, thousandths
_normalize_scores(recommendations) ==
    LET scores == Scores(recommendations)
        min_score == MinSeq(scores)
        max_score == MaxSeq(scores)
    IN  IF recommendations = << >> THEN << >>
        ELSE IF max_score = min_score
        THEN [i \in 1..Len(recommendations) |->
                [recommendations[i] EXCEPT !.score = 50 * SCALE]]
        ELSE [i \in 1..Len(recommendations) |->
                [recommendations[i] EXCEPT
                    !.score = MulDiv((@ - min_score) * 100, SCALE, max_score - min_score)]]

\* lines 87-91, 96-100: {'method': method, 'score': round(score, 2), **reason};
\* a reason that has a score of its own (the collaborative one) overrides
\* the normalized score
Detail(method, r) ==
    [method |-> method,
     score |-> IF r.reason.type = "collaborative" THEN r.reason.score ELSE r.score,
     reason |-> r.reason]

RECURSIVE Combine(_, _, _, _)
\* mutant: the share of the second method replaces the share of the first
Combine_overwrite(scored, weight, method, acc) ==
    IF scored = << >> THEN acc
    ELSE LET r == Head(scored)
             detail == Detail(method, r)
             next ==
                IF r.product \in DKeys(acc)
                THEN [i \in 1..Len(acc) |->
                        IF acc[i].k = r.product
                        THEN [k |-> r.product, v |-> r.score * weight,
                              reasons |-> Append(acc[i].reasons, detail)]
                        ELSE acc[i]]
                ELSE Append(acc, [k |-> r.product, v |-> r.score * weight,
                                  reasons |-> <<detail>>])
         IN  Combine(Tail(scored), weight, method, next)

\* lines 84-100: combined_scores[product.id]['score'] += score * weight, the
\* reason of the method appended
Combine(scored, weight, method, acc) ==
    IF scored = << >> THEN acc
    ELSE LET r == Head(scored)
             detail == Detail(method, r)
             next ==
                IF r.product \in DKeys(acc)
                THEN [i \in 1..Len(acc) |->
                        IF acc[i].k = r.product
                        THEN [k |-> r.product, v |-> acc[i].v + r.score * weight,
                              reasons |-> Append(acc[i].reasons, detail)]
                        ELSE acc[i]]
                ELSE Append(acc, [k |-> r.product, v |-> r.score * weight,
                                  reasons |-> <<detail>>])
         IN  Combine(Tail(scored), weight, method, next)

\* lines 109-127: the combined reason of each of the products kept
HybridFormat(weights, sorted_recommendations) ==
    [i \in 1..Len(sorted_recommendations) |->
        [product |-> sorted_recommendations[i].k,
         score |-> sorted_recommendations[i].v,
         reason |-> [type |-> "hybrid",
                     combined_score |-> sorted_recommendations[i].v,
                     collaborative_weight |-> weights.collaborative_weight,
                     content_weight |-> weights.content_weight,
                     methods_used |->
                        [j \in 1..Len(sorted_recommendations[i].reasons) |->
                            sorted_recommendations[i].reasons[j].method],
                     details |-> sorted_recommendations[i].reasons]]]

\* lines 77-127 of _hybrid_recommend, given the two lists of the scorers
HybridFrom(weights, collab_recs, content_recs, limit) ==
    HybridFormat(weights,
        Take(SortedByValue(
                Combine(_normalize_scores(content_recs), weights.content_weight,
                        "content_based",
                    Combine(_normalize_scores(collab_recs), weights.collaborative_weight,
                            "collaborative", << >>))),
             limit))

\* HybridRecommendationService._hybrid_recommend
_hybrid_recommend(weights, user_id, limit, exclude_interacted) ==
    HybridFrom(weights,
               collaborative_recommend_products(user_id, limit * 2, exclude_interacted),
               content_recommend_products(user_id, limit * 2, exclude_interacted),
               limit)

\* mutant: three interactions are enough for the blend, neighbours or not
determine_without_neighbours(user_id) ==
    IF Len(RowsOf(user_id)) < 3 THEN "content" ELSE "hybrid"

\* mutant: a user with neighbours is served by the collaborative scorer alone
determine_collaborative(user_id) ==
    LET interaction_count == Len(RowsOf(user_id))
        similar_users == find_similar_users(user_id, 1)
    IN  IF interaction_count < 3 THEN "content"
        ELSE IF similar_users = << >> THEN "content"
        ELSE IF interaction_count < 10 THEN "collaborative"
        ELSE "hybrid"

\* HybridRecommendationService._determine_best_strategy
_determine_best_strategy(user_id) ==
    LET interaction_count == Len(RowsOf(user_id))
        similar_users == find_similar_users(user_id, 1)
    IN  IF interaction_count < 3 THEN "content"
        ELSE IF similar_users = << >> THEN "content"
        ELSE IF interaction_count < 10 THEN "hybrid"
        ELSE "hybrid"

\* the strategy recommend_products goes by (lines 47-55): `auto` resolved,
\* anything that is neither collaborative nor content treated as hybrid
ResolvedStrategy(user_id, strategy) ==
    LET s == IF strategy = "auto" THEN _determine_best_strategy(user_id) ELSE strategy
    IN  IF s \in {"collaborative", "content"} THEN s ELSE "hybrid"

\* lines 50-55 of recommend_products, for the strategy s it goes by.  Beside
\* the list it returns, `scorers` records which scorers it ran.
Dispatch(weights, user_id, limit, exclude_interacted, s) ==
    IF s = "collaborative"
    THEN [recommendations |->
                collaborative_recommend_products(user_id, limit, exclude_interacted),
          scorers |-> {"collaborative"}]
    ELSE IF s = "content"
    THEN [recommendations |->
                content_recommend_products(user_id, limit, exclude_interacted),
          scorers |-> {"content"}]
    ELSE [recommendations |->
                _hybrid_recommend(weights, user_id, limit, exclude_interacted),
          scorers |-> {"collaborative", "content"}]

\* HybridRecommendationService.recommend_products
recommend_products(weights, user_id, limit, exclude_interacted, strategy) ==
    IF ~HasUser(user_id) THEN [recommendations |-> << >>, scorers |-> {}]
    ELSE Dispatch(weights, user_id, limit, exclude_interacted,
                  ResolvedStrategy(user_id, strategy))

\* mutant: a visit takes up to items_per_category candidates of the category
RECURSIVE RoundRobinLoop_quota(_, _, _, _, _, _)
RoundRobinLoop_quota(cr, cats, index, out, limit, per_category) ==
    IF ~(Len(out) < limit /\ AnyBucket(cr)) THEN out
    ELSE LET category == pick_category(cats, index)
             n == Min(per_category, Len(cr[category]))
             popped == [cr EXCEPT ![category] = SubSeq(@, n + 1, Len(@))]
             out2 == out \o SubSeq(cr[category], 1, n)
             cats2 == IF popped[category] = << >>
                      THEN ListRemove(cats, category) ELSE cats
         IN  IF cats2 = << >> THEN out2
             ELSE RoundRobinLoop_quota(popped, cats2, index + 1, out2, limit,
                                       per_category)

\* lines 221-233 of get_recommendations_with_diversity: the while loop run
\* to its end, from the state the variables are in; what it returns is
\* diverse_recs.  per_category is items_per_category: in scope, never read.
RECURSIVE RoundRobinLoop(_, _, _, _, _, _)
RoundRobinLoop(cr, cats, index, out, limit, per_category) ==
    IF ~(Len(out) < limit /\ AnyBucket(cr)) THEN out
    ELSE LET category == pick_category(cats, index)
             popped == IF cr[category] # << >>
                       THEN [cr EXCEPT ![category] = Tail(@)] ELSE cr
             out2 == IF cr[category] # << >>
                     THEN Append(out, Head(cr[category])) ELSE out
             cats2 == IF popped[category] = << >>
                      THEN ListRemove(cats, category) ELSE cats
         IN  IF cats2 = << >> THEN out2
             ELSE RoundRobinLoop(popped, cats2, index + 1, out2, limit,
                                 per_category)

\* lines 203-235, given the list recommend_products returned; a candidate
\* is handled as [id, category], id being its place in that list
DiverseFrom(recommendations, limit, diversity_factor) ==
    LET tagged == AsRecommendations(
                    [i \in 1..Len(recommendations) |->
                        products[recommendations[i].product].category])
        cats == FirstAppearance(tagged, {})
        cr == [c \in {cats[i] : i \in 1..Len(cats)} |-> Bucket(tagged, c)]
        per_category ==
            IF diversity_factor > 0 /\ Len(cats) > 1
            THEN Max(1, (limit * diversity_factor) \div (10 * Len(cats)))
            ELSE limit
        picked == Take(RoundRobinLoop(cr, cats, 0, << >>, limit, per_category), limit)
    IN  [i \in 1..Len(picked) |-> recommendations[picked[i].id]]

\* line 201: recommend_products(user_id, limit=limit*3, strategy='hybrid')
DiversityCandidates(weights, user_id, limit) ==
    recommend_products(weights, user_id, limit * 3, TRUE, "hybrid").recommendations

\* HybridRecommendationService.get_recommendations_with_diversity
get_recommendations_with_diversity(weights, user_id, limit, diversity_factor) ==
    DiverseFrom(DiversityCandidates(weights, user_id, limit), limit, diversity_factor)

(***************************************************************************)
(* SpecEngine: the scorers and the combiner called directly, one call at a *)
(* time, on a database that holds the catalog, the users and at most       *)
(* MaxRows interaction rows.  No request handler of app.py writes the      *)
(* three tables, so the calls leave them as they are, and what a call      *)
(* returns does not depend on the calls before it: a behaviour is one      *)
(* database and one call on it.                                            *)
(***************************************************************************)
Limits == 1..MaxLimit
Strategies == {"auto", "hybrid", "collaborative", "content"}
\* what callers pass as strategy: the four names and one that is none of them
StrategyArgs == Strategies \cup {"popular"}
\* HybridRecommendationService(collaborative_weight, content_weight), tenths
WeightPairs == {DefaultWeights,
                [collaborative_weight |-> 3, content_weight |-> 7]}

notEngine == <<geminiVars, threadVars, divVars, storeVars>>

InitEngine ==
    /\ cache = << >> /\ inserted_at = << >> /\ clock = 0 /\ gen = NoCall
    /\ pc = NoThreads /\ tl = NoThreads
    /\ NoDiversity
    /\ users = UserTable
    /\ \E p4_available \in BOOLEAN : products = Catalog(p4_available)
    /\ interactions \in Stores
    /\ gemini_available = FALSE
    /\ req = [op |-> "none"] /\ res = << >>

\* CollaborativeFilteringService().find_similar_users(user_id, limit)
FindSimilarUsers(user_id, limit) ==
    /\ req.op = "none"
    /\ req' = [op |-> "find_similar_users", user_id |-> user_id, limit |-> limit]
    /\ res' = find_similar_users(user_id, limit)
    /\ UNCHANGED notEngine

\* mutant: the scorer logs the request as a search row of the user
CollaborativeRecommend_logged(user_id, limit, exclude_interacted) ==
    /\ req.op = "none"
    /\ req' = [op |-> "collaborative.recommend_products", user_id |-> user_id,
               limit |-> limit, exclude_interacted |-> exclude_interacted]
    /\ res' = collaborative_recommend_products(user_id, limit, exclude_interacted)
    /\ interactions' = Append(interactions,
                              [user_id |-> user_id, product_id |-> 1,
                               interaction_type |-> "search", rating |-> 0])
    /\ UNCHANGED <<geminiVars, threadVars, divVars, users, products,
                   gemini_available>>

\* CollaborativeFilteringService().recommend_products(user_id, limit, exclude_interacted)
CollaborativeRecommend(user_id, limit, exclude_interacted) ==
    /\ req.op = "none"
    /\ req' = [op |-> "collaborative.recommend_products", user_id |-> user_id,
               limit |-> limit, exclude_interacted |-> exclude_interacted]
    /\ res' = collaborative_recommend_products(user_id, limit, exclude_interacted)
    /\ UNCHANGED notEngine

\* ContentBasedFilteringService().recommend_products(user_id, limit, exclude_interacted)
ContentRecommend(user_id, limit, exclude_interacted) ==
    /\ req.op = "none"
    /\ req' = [op |-> "content.recommend_products", user_id |-> user_id,
               limit |-> limit, exclude_interacted |-> exclude_interacted]
    /\ res' = content_recommend_products(user_id, limit, exclude_interacted)
    /\ UNCHANGED notEngine

\* ContentBasedFilteringService().calculate_product_similarity(product,
\* preferences) as recommend_products calls it: on a product of the catalog
\* and the preferences extracted for the user; `parts` are the points each
\* of the six sections added to the score
ProductSimilarity(product_id, user_id) ==
    /\ req.op = "none"
    /\ HasProduct(product_id)
    /\ \E preferences \in {extract_user_preferences(user_id)} :
          /\ req' = [op |-> "calculate_product_similarity",
                     product_id |-> product_id, user_id |-> user_id]
          /\ res' = [score |-> calculate_product_similarity(products[product_id],
                                                            preferences),
                     parts |-> SubScores(products[product_id], preferences)]
    /\ UNCHANGED notEngine

\* ContentBasedFilteringService().extract_user_preferences(user_id)
ExtractPreferences(user_id) ==
    /\ req.op = "none"
    /\ req' = [op |-> "extract_user_preferences", user_id |-> user_id]
    /\ res' = extract_user_preferences(user_id)
    /\ UNCHANGED notEngine

\* ContentBasedFilteringService().find_similar_products(product_id, limit)
FindSimilarProducts(product_id, limit) ==
    /\ req.op = "none"
    /\ req' = [op |-> "find_similar_products", product_id |-> product_id,
               limit |-> limit]
    /\ res' = find_similar_products(product_id, limit)
    /\ UNCHANGED notEngine

\* HybridRecommendationService()._determine_best_strategy(user_id)
DetermineBestStrategy(user_id) ==
    /\ req.op = "none"
    /\ req' = [op |-> "_determine_best_strategy", user_id |-> user_id]
    /\ res' = _determine_best_strategy(user_id)
    /\ UNCHANGED notEngine

\* HybridRecommendationService(weights).recommend_products(user_id, limit,
\* exclude_interacted, strategy); res is the list returned, req.scorers the
\* scorers the call ran
HybridRecommend(weights, user_id, limit, exclude_interacted, strategy) ==
    /\ req.op = "none"
    /\ \E r \in {recommend_products(weights, user_id, limit, exclude_interacted, strategy)} :
        /\ req' = [op |-> "hybrid.recommend_products", weights |-> weights,
                   user_id |-> user_id, limit |-> limit,
                   exclude_interacted |-> exclude_interacted,
                   strategy |-> strategy, scorers |-> r.scorers]
        /\ res' = r.recommendations
        /\ UNCHANGED notEngine

\* HybridRecommendationService(weights).get_recommendations_with_diversity(
\* user_id, limit, diversity_factor); req.candidates is the hybrid list of
\* line 201
DiverseRecommend(weights, user_id, limit, diversity_factor) ==
    /\ req.op = "none"
    /\ \E candidates \in {DiversityCandidates(weights, user_id, limit)} :
        /\ req' = [op |-> "get_recommendations_with_diversity", weights |-> weights,
                   user_id |-> user_id, limit |-> limit,
                   diversity_factor |-> diversity_factor,
                   candidates |-> candidates]
        /\ res' = DiverseFrom(candidates, limit, diversity_factor)
        /\ UNCHANGED notEngine

NextEngine ==
    \/ \E user_id \in UserIds, limit \in {1, 10} : FindSimilarUsers(user_id, limit)
    \/ \E user_id \in UserIds, limit \in Limits, exclude_interacted \in BOOLEAN :
          CollaborativeRecommend(user_id, limit, exclude_interacted)
    \/ \E user_id \in UserIds, limit \in Limits, exclude_interacted \in BOOLEAN :
          ContentRecommend(user_id, limit, exclude_interacted)
    \/ \E product_id \in ProductIds, limit \in Limits :
          FindSimilarProducts(product_id, limit)
    \/ \E user_id \in UserIds : DetermineBestStrategy(user_id)
    \/ \E user_id \in UserIds : ExtractPreferences(user_id)
    \/ \E product_id \in ProductIds, user_id \in UserIds :
          ProductSimilarity(product_id, user_id)
    \/ \E weights \in WeightPairs, user_id \in UserIds, limit \in Limits,
          exclude_interacted \in BOOLEAN, strategy \in StrategyArgs :
          HybridRecommend(weights, user_id, limit, exclude_interacted, strategy)
    \/ \E weights \in WeightPairs, user_id \in UserIds, limit \in Limits,
          diversity_factor \in DiversityFactors :
          DiverseRecommend(weights, user_id, limit, diversity_factor)

SpecEngine == InitEngine /\ [][NextEngine]_vars

\* the number of rows user_id has in user_interactions
InteractionCount(user_id) ==
    Cardinality({i \in 1..Len(interactions) : interactions[i].user_id = user_id})

\* C8: auto strategy resolution returns content for a user with fewer than 3
\* interactions, content for a user for whom the neighbour search finds no
\* similar user, and hybrid for every other user; it never returns
\* collaborative.
C8_AutoStrategy ==
    req.op = "_determine_best_strategy"
        => /\ res # "collaborative"
           /\ res = IF InteractionCount(req.user_id) < 3 THEN "content"
                    ELSE IF find_similar_users(req.user_id, 10) = << >> THEN "content"
                    ELSE "hybrid"

\* C8 witness: auto resolved to hybrid for a user with 3 interactions and a
\* similar user.
C8_Witness ==
    /\ req.op = "_determine_best_strategy" /\ res = "hybrid"
    /\ InteractionCount(req.user_id) = 3
    /\ find_similar_users(req.user_id, 10) # << >>

\* C9: for a user with zero interactions the collaborative scorer returns the
\* popularity fallback: the list of _get_popular_products, every reason a
\* popular_fallback and none a collaborative one, whatever the other users did.
C9_ZeroInteractionsPopular ==
    (req.op = "collaborative.recommend_products" /\ InteractionCount(req.user_id) = 0)
        => /\ res = _get_popular_products(req.limit)
           /\ \A i \in 1..Len(res) : res[i].reason.type = "popular_fallback"

\* C9 witness: a user without interactions got two popular products while two
\* other users have interactions with a product in common.
C9_Witness ==
    /\ req.op = "collaborative.recommend_products"
    /\ InteractionCount(req.user_id) = 0
    /\ Len(res) >= 2
    /\ find_similar_users(1, 10) # << >>

\* the score of product in a normalized list, 0 if the list does not have it
NormalizedScore(scored, product) ==
    IF \E i \in 1..Len(scored) : scored[i].product = product
    THEN scored[CHOOSE i \in 1..Len(scored) : scored[i].product = product].score
    ELSE 0
\* the two normalized lists the hybrid call of req blended
NormalizedCollab ==
    _normalize_scores(collaborative_recommend_products(req.user_id, req.limit * 2,
                                                       req.exclude_interacted))
NormalizedContent ==
    _normalize_scores(content_recommend_products(req.user_id, req.limit * 2,
                                                 req.exclude_interacted))
\* the call of req blended the two scorers
Blended ==
    /\ req.op = "hybrid.recommend_products"
    /\ HasUser(req.user_id)
    /\ ResolvedStrategy(req.user_id, req.strategy) = "hybrid"

\* C10: in hybrid blending the combined score of every product returned is
\* collaborative_weight x its normalized collaborative score + content_weight
\* x its normalized content score, a list without the product counting 0; so
\* 0.6 x collab + 0.4 x content under the default weights; and no combined
\* score is negative.
C10_HybridBlend ==
    Blended
        => \A i \in 1..Len(res) :
              /\ res[i].score =
                    req.weights.collaborative_weight
                        * NormalizedScore(NormalizedCollab, res[i].product)
                    + req.weights.content_weight
                        * NormalizedScore(NormalizedContent, res[i].product)
              /\ req.weights = DefaultWeights
                    => res[i].score =
                          6 * NormalizedScore(NormalizedCollab, res[i].product)
                          + 4 * NormalizedScore(NormalizedContent, res[i].product)
              /\ res[i].score >= 0

\* C10 witness: under the default weights a product returned is in both lists
\* with a positive normalized score in each.
C10_Witness ==
    /\ Blended /\ req.weights = DefaultWeights
    /\ \E i \in 1..Len(res) :
          /\ res[i].reason.methods_used = <<"collaborative", "content_based">>
          /\ NormalizedScore(NormalizedCollab, res[i].product) > 0
          /\ NormalizedScore(NormalizedContent, res[i].product) > 0

\* the rows of the user of req whose type has a positive weight, and the
\* weight of each
PositiveRows ==
    {i \in 1..Len(interactions) :
        /\ interactions[i].user_id = req.user_id
        /\ get_interaction_weight(interactions[i].interaction_type) > 0}
RowWeight == [i \in PositiveRows |-> get_interaction_weight(interactions[i].interaction_type)]
RowProduct(i) == products[interactions[i].product_id]
\* the counter d, cut to its n most common keys, holds key only if rows is
\* not empty, then with the sum of the weights of rows, and always does
\* unless n keys are ahead of it
CountsExactly(d, n, key, rows) ==
    /\ rows = {} => key \notin DKeys(d)
    /\ key \in DKeys(d) => DGet(d, key) = SumOver(RowWeight, rows)
    /\ (rows # {} /\ Len(d) < n) => key \in DKeys(d)

\* C16: the profile of extract_user_preferences counts exactly the rows whose
\* weight is positive: each category, brand and tag has the sum of the weights
\* of the positive rows on its products (n views give 2 x n) and is absent
\* without such a row, and the price range is that of the products of those
\* rows; cart_remove and wishlist_remove rows add nothing.
C16_PositiveProfile ==
    req.op = "extract_user_preferences"
        => /\ \A c \in {products[p].category : p \in DOMAIN products} :
                 CountsExactly(res.preferred_categories, 5, c,
                               {i \in PositiveRows : RowProduct(i).category = c})
           /\ \A b \in {products[p].brand : p \in DOMAIN products} \ {NoBrand} :
                 CountsExactly(res.preferred_brands, 5, b,
                               {i \in PositiveRows : RowProduct(i).brand = b})
           /\ \A t \in UNION {products[p].tags : p \in DOMAIN products} :
                 CountsExactly(res.preferred_tags, 10, t,
                               {i \in PositiveRows : t \in RowProduct(i).tags})
           /\ res.price_range.unbounded = (PositiveRows = {})
           /\ PositiveRows # {}
                 => /\ \E i \in PositiveRows : res.price_range.min = RowProduct(i).price
                    /\ \E i \in PositiveRows : res.price_range.max = RowProduct(i).price
                    /\ \A i \in PositiveRows :
                          /\ res.price_range.min <= RowProduct(i).price
                          /\ res.price_range.max >= RowProduct(i).price

\* C16 witness: the user has a view of an Electronics product and a
\* cart_remove of a Books product; Electronics has weight 2 and Books is not
\* in the profile.
C16_Witness ==
    /\ req.op = "extract_user_preferences"
    /\ \E i \in 1..Len(interactions) :
          /\ interactions[i].user_id = req.user_id
          /\ interactions[i].interaction_type = "cart_remove"
          /\ RowProduct(i).category = "Books"
    /\ "Electronics" \in DKeys(res.preferred_categories)
    /\ DGet(res.preferred_categories, "Electronics") = 2
    /\ "Books" \notin DKeys(res.preferred_categories)

\* C17: find_similar_products does not return the source product, returns
\* only available products that have the category of the source or its
\* brand, returns at most limit of them, and in order of non-increasing score.
C17_SimilarProducts ==
    (req.op = "find_similar_products" /\ HasProduct(req.product_id))
        => /\ Len(res) <= req.limit
           /\ \A i \in 1..Len(res) :
                 /\ res[i].product # req.product_id
                 /\ products[res[i].product].is_available
                 /\ \/ products[res[i].product].category
                          = products[req.product_id].category
                    \/ /\ products[req.product_id].brand # NoBrand
                       /\ products[res[i].product].brand
                             = products[req.product_id].brand
           /\ \A i, j \in 1..Len(res) : i < j => res[i].score >= res[j].score

\* the products the user of req has a row on
InteractedProducts ==
    {interactions[i].product_id :
        i \in {j \in 1..Len(interactions) : interactions[j].user_id = req.user_id}}

\* C19: with exclude_interacted set, the collaborative scorer never returns a
\* product the user has interacted with, whatever the store holds (also for
\* a user who has interactions and no similar user).
C19_ExcludeInteracted ==
    (req.op = "collaborative.recommend_products" /\ req.exclude_interacted)
        => \A i \in 1..Len(res) : res[i].product \notin InteractedProducts

\* the call of req went through the similar users (not the popular fallback)
NeighbourPath ==
    /\ req.op = "collaborative.recommend_products"
    /\ find_similar_users(req.user_id, 10) # << >>
\* every product the similar users scored for the user of req, best first,
\* and those of them that are available
ScoredCandidates ==
    SortedByValue(Aggregate(find_similar_users(req.user_id, 10),
                            IF req.exclude_interacted THEN InteractedProducts ELSE {},
                            << >>))
AvailableCandidates ==
    Filter(ScoredCandidates,
           {i \in 1..Len(ScoredCandidates) :
                HasProduct(ScoredCandidates[i].k)
                    /\ products[ScoredCandidates[i].k].is_available},
           1)

\* C20: on the neighbour path the collaborative scorer returns only available
\* products, and the `limit` best scored of the available candidates (all of
\* them if there are fewer than limit).
C20_TopAvailable ==
    NeighbourPath
        => /\ \A i \in 1..Len(res) : products[res[i].product].is_available
           /\ Len(res) = Min(req.limit, Len(AvailableCandidates))
           /\ \A i \in 1..Len(res) : res[i].product = AvailableCandidates[i].k

\* the products the user has a row on
ProductsOf(user_id) ==
    {interactions[i].product_id :
        i \in {j \in 1..Len(interactions) : interactions[j].user_id = user_id}}

\* C21: every user find_similar_users returns is a user other than the
\* target who has interacted with at least min_common_interactions distinct
\* products of the target's product set; several rows on one shared product
\* do not qualify a user.
C21_DistinctCommonProducts ==
    req.op = "find_similar_users"
        => \A i \in 1..Len(res) :
              /\ res[i].user # req.user_id
              /\ Cardinality(ProductsOf(res[i].user) \cap ProductsOf(req.user_id))
                    >= min_common_interactions

\* the number of rows on the product, and the average of its non-NULL ratings
\* in thousandths (0 without a rating)
RowCount(product_id) ==
    Cardinality({i \in 1..Len(interactions) : interactions[i].product_id = product_id})
AvgRating(product_id) ==
    LET rated == {i \in 1..Len(interactions) :
                     /\ interactions[i].product_id = product_id
                     /\ interactions[i].rating # 0}
    IN  IF rated = {} THEN 0
        ELSE (SumOver([j \in rated |-> interactions[j].rating], rated) * SCALE)
                \div Cardinality(rated)

\* the collaborative call of req answered with the popularity fallback
PopularPath ==
    /\ req.op = "collaborative.recommend_products"
    /\ find_similar_users(req.user_id, 10) = << >>

\* C22: the popularity fallback lists only available products, scores each
\* with interaction count + 2 x average rating, and orders them by
\* (interaction count, average rating) descending: of two products with the
\* same count the one with the higher average rating comes first.
C22_PopularOrder ==
    PopularPath
        => /\ \A i \in 1..Len(res) :
                /\ res[i].reason.type = "popular_fallback"
                /\ products[res[i].product].is_available
                /\ res[i].score = RowCount(res[i].product) * SCALE
                                    + 2 * AvgRating(res[i].product)
           /\ \A i, j \in 1..Len(res) :
                i < j => \/ RowCount(res[i].product) > RowCount(res[j].product)
                         \/ /\ RowCount(res[i].product) = RowCount(res[j].product)
                            /\ AvgRating(res[i].product) >= AvgRating(res[j].product)

\* C23: every product the content-based scorer returns is available and in
\* a category of the user's profile or of the user's explicit preferred
\* categories, for every user: also one with explicit preferences and no
\* positive interaction.
C23_PreferredCategoryOnly ==
    req.op = "content.recommend_products"
        => \A i \in 1..Len(res) :
              /\ products[res[i].product].is_available
              /\ products[res[i].product].category
                    \in DKeys(extract_user_preferences(req.user_id).preferred_categories)
                        \cup extract_user_preferences(req.user_id)
                                .explicit_preferences.categories

\* the preferences and the product of the similarity call of req
SimilarityPreferences == extract_user_preferences(req.user_id)
SimilarityProduct == products[req.product_id]

\* C24: calculate_product_similarity returns a score in [0, 100], the sum of
\* six parts: category at most 30 (exactly 20 when the category matches only
\* the explicit preferences), subcategory at most 15, brand at most 20
\* (exactly 15 when the brand matches only the explicit preferences), price
\* at most 15 (exactly 15 when the observed price range has width 0 and the
\* price is inside it), tags min(3 x overlap, 10) and rating at most 10.
C24_SimilarityBounds ==
    req.op = "calculate_product_similarity"
        => LET prefs == SimilarityPreferences
               product == SimilarityProduct
               overlap == Cardinality(product.tags \cap DKeys(prefs.preferred_tags))
           IN  /\ res.score >= 0 /\ res.score <= 100 * SCALE
               /\ res.score = res.parts.category + res.parts.subcategory
                                + res.parts.brand + res.parts.price
                                + res.parts.tags + res.parts.rating
               /\ \A part \in DOMAIN res.parts : res.parts[part] >= 0
               /\ res.parts.category <= 30 * SCALE
               /\ (product.category \notin DKeys(prefs.preferred_categories)
                     /\ product.category \in prefs.explicit_preferences.categories)
                        => res.parts.category = 20 * SCALE
               /\ res.parts.subcategory <= 15 * SCALE
               /\ res.parts.brand <= 20 * SCALE
               /\ (product.brand # NoBrand
                     /\ product.brand \notin DKeys(prefs.preferred_brands)
                     /\ product.brand \in prefs.explicit_preferences.brands)
                        => res.parts.brand = 15 * SCALE
               /\ res.parts.price <= 15 * SCALE
               /\ (~prefs.price_range.unbounded
                     /\ prefs.price_range.min = prefs.price_range.max
                     /\ product.price = prefs.price_range.min)
                        => res.parts.price = 15 * SCALE
               /\ res.parts.tags = Min(3 * overlap * SCALE, 10 * SCALE)
               /\ res.parts.rating <= 10 * SCALE

\* C24 witness: a product whose category weight, brand weight and tag overlap
\* all exceed their caps (3 x weight > 30, 2 x weight > 20, 3 x 4 tags > 10)
\* scored against the preferences of the user who earned them.
C24_Witness ==
    /\ req.op = "calculate_product_similarity"
    /\ SimilarityProduct.category \in DKeys(SimilarityPreferences.preferred_categories)
    /\ DGet(SimilarityPreferences.preferred_categories, SimilarityProduct.category) > 10
    /\ SimilarityProduct.brand \in DKeys(SimilarityPreferences.preferred_brands)
    /\ DGet(SimilarityPreferences.preferred_brands, SimilarityProduct.brand) > 10
    /\ Cardinality(SimilarityProduct.tags
                     \cap DKeys(SimilarityPreferences.preferred_tags)) = 4
    /\ res.parts.category = 30 * SCALE
    /\ res.parts.brand = 20 * SCALE
    /\ res.parts.tags = 10 * SCALE

\* C25: for every strategy the list HybridRecommendationService.recommend_products
\* returns has at most `limit` entries, no product twice and scores that
\* never increase down the list; also when the collaborative strategy is
\* answered with the popularity fallback.
C25_OrderedDistinct ==
    req.op = "hybrid.recommend_products"
        => /\ Len(res) <= req.limit
           /\ \A i, j \in 1..Len(res) :
                i < j => /\ res[i].product # res[j].product
                         /\ res[i].score >= res[j].score

\* the details the recommendation carries: those of its hybrid reason, or
\* the reason itself
DetailsOf(rec) ==
    IF rec.reason.type = "hybrid"
    THEN {rec.reason.details[j].reason.type : j \in 1..Len(rec.reason.details)}
    ELSE {rec.reason.type}

\* C28: whenever `auto` resolves to hybrid, the collaborative scorer inside
\* the blend takes the neighbour path and not the popularity fallback
\* (find_similar_users finds somebody with limit 1 exactly when it does with
\* limit 10), so no recommendation returned under `auto` carries
\* popular_fallback details.
C28_AutoNeverPopular ==
    (req.op = "hybrid.recommend_products" /\ req.strategy = "auto")
        => /\ find_similar_users(req.user_id, 1) # << >>
                <=> find_similar_users(req.user_id, 10) # << >>
           /\ req.scorers = {"collaborative", "content"}
                => find_similar_users(req.user_id, 10) # << >>
           /\ \A i \in 1..Len(res) : "popular_fallback" \notin DetailsOf(res[i])

\* C28 witness: `auto` resolved to hybrid and a returned recommendation has
\* the details of the collaborative scorer's neighbour path.
C28_Witness ==
    /\ req.op = "hybrid.recommend_products" /\ req.strategy = "auto"
    /\ req.scorers = {"collaborative", "content"}
    /\ \E i \in 1..Len(res) : "collaborative" \in DetailsOf(res[i])

NoneText == <<None>>
\* the text has at least one character
HasText(text) == text # NoneText /\ \E i \in 1..Len(text) : text[i] # ""

\* first n keys of a dict: list(d.keys())[:n]
FirstKeys(d, n) == Take([i \in 1..Len(d) |-> d[i].k], n)

\* lines 261-283 of get_explanation_context, what the prompt reads of it
ContextFrom(user_id, similar_users, preferences) ==
    [user |-> [username |-> users[user_id].username],
     collaborative_context |-> [similar_users_count |-> Len(similar_users)],
     content_context |->
        [top_categories |-> FirstKeys(preferences.preferred_categories, 3),
         top_brands |-> FirstKeys(preferences.preferred_brands, 3)]]

\* HybridRecommendationService.get_explanation_context
get_explanation_context(user_id) ==
    ContextFrom(user_id, find_similar_users(user_id, 10),
                extract_user_preferences(user_id))

\* GeminiService._build_recommendation_prompt: the values the prompt
\* interpolates, in the order of its lines; the lines that are left out
\* for an empty list or a zero count contribute the empty value
_build_recommendation_prompt(product, user_context, recommendation_reason) ==
    LET reason_type == recommendation_reason.type IN
    [product_name |-> product.name,
     product_category |-> product.category,
     product_brand |-> product.brand,
     product_price |-> product.price,
     product_rating |-> product.average_rating,
     user_name |-> user_context.user.username,
     top_categories |-> Take(user_context.content_context.top_categories, 3),
     top_brands |-> Take(user_context.content_context.top_brands, 3),
     similar_count |-> user_context.collaborative_context.similar_users_count,
     reason_type |-> reason_type,
     reason_lines |->
        IF reason_type = "collaborative"
        THEN <<recommendation_reason.recommenders_count>>
        ELSE IF reason_type = "content_based"
        THEN <<recommendation_reason.matched_category, recommendation_reason.matched_brand>>
        ELSE << >>]

\* GeminiService.explain_recommendation
explain_recommendation(c, product, user_context, recommendation_reason, reply) ==
    generate_content(c,
        _build_recommendation_prompt(product, user_context, recommendation_reason),
        TRUE, reply)

\* mutant: no fallback text for the popularity reason
fallback_none_for_popular(product, reason) ==
    IF reason.type = "popular_fallback" THEN <<"">>
    ELSE <<"We recommend ", product.name, ".">>

\* RecommendationService._generate_fallback_explanation
_generate_fallback_explanation(product, reason) ==
    IF reason.type = "collaborative"
    THEN <<"We recommend ", product.name, " because ",
           ToString(reason.recommenders_count),
           " users with similar taste also liked this product. It's in the ",
           product.category, " category and has a ",
           ToString(product.average_rating), " star rating.">>
    ELSE IF reason.type = "content_based"
    THEN <<"We recommend ", product.name>>
            \o (IF reason.matched_category
                THEN <<" because it matches your interest in ", product.category>>
                ELSE << >>)
            \o (IF reason.matched_brand
                THEN <<" and it's from ", product.brand, ", a brand you like">>
                ELSE << >>)
            \o <<".">>
    ELSE IF reason.type = "hybrid"
    THEN <<"We recommend ", product.name,
           " based on both your personal preferences and what similar users enjoyed. It's highly rated (",
           ToString(product.average_rating), " stars) and fits your style perfectly.">>
    ELSE <<"We think you'll love ", product.name, "! It's a popular choice in the ",
           product.category, " category.">>

\* mutant: what the GeminiService returned is the explanation, None included
Explanation_no_fallback(explain, g, product, reason) ==
    IF explain THEN <<g.result>>
    ELSE _generate_fallback_explanation(product, reason)

\* lines 81-103: the explanation of one recommendation.  explain is
\* `include_explanations and self.gemini_available`, g what
\* explain_recommendation returns if it is called.
Explanation(explain, g, product, reason) ==
    IF explain
    THEN IF g.result = None
         THEN _generate_fallback_explanation(product, reason)
         ELSE <<g.result>>
    ELSE _generate_fallback_explanation(product, reason)

\* lines 76-111 of get_recommendations_with_explanations: the loop over the
\* recommendations from the i-th on.  replies[i] is what the collaborator
\* answers if it is called for the i-th recommendation.
RECURSIVE ExplainEach(_, _, _, _, _, _, _)
ExplainNext(c, recommendations, replies, user_context, explain, i, results, g) ==
    ExplainEach(IF explain THEN g.cache ELSE c,
                recommendations, replies, user_context, explain, i + 1,
                Append(results,
                   [product |-> products[recommendations[i].product],
                    score |-> recommendations[i].score,
                    recommendation_reason |-> recommendations[i].reason,
                    explanation |->
                        Explanation(explain, g, products[recommendations[i].product],
                                    recommendations[i].reason)]))
ExplainEach(c, recommendations, replies, user_context, explain, i, results) ==
    IF i > Len(recommendations) THEN [cache |-> c, results |-> results]
    ELSE ExplainNext(c, recommendations, replies, user_context, explain, i, results,
            explain_recommendation(c, products[recommendations[i].product],
                                   user_context, recommendations[i].reason, replies[i]))

\* lines 113-125: the dictionary returned, and the cache left, after the loop
Explained(user_id, strategy, available, e) ==
    [result |-> [success |-> TRUE,
                 user |-> [id |-> user_id, username |-> users[user_id].username],
                 strategy_used |-> strategy,
                 recommendations |-> e.results,
                 count |-> Len(e.results),
                 gemini_enabled |-> available],
     cache |-> e.cache]

\* RecommendationService.get_recommendations_with_explanations, given what
\* self.recommender.recommend_products returned (engine).  It returns the
\* dictionary (result) and leaves the cache of the GeminiService (cache).
get_recommendations_with_explanations(c, available, engine, user_id, strategy, include_explanations, replies) ==
    IF ~HasUser(user_id)
    THEN [result |-> [success |-> FALSE, error |-> "User not found"], cache |-> c]
    ELSE IF engine.recommendations = << >>
    THEN [result |-> [success |-> TRUE,
                      user |-> [id |-> user_id, username |-> users[user_id].username],
                      recommendations |-> << >>,
                      message |-> "No recommendations available at this time. Try interacting with more products!"],
          cache |-> c]
    ELSE Explained(user_id, strategy, available,
            ExplainEach(c, engine.recommendations, replies,
                        get_explanation_context(user_id),
                        include_explanations /\ available, 1, << >>))

\* the prompt of get_similar_products_with_explanations (lines 217-223):
\* the values it interpolates
SimilarPrompt(product, source_product, reason) ==
    [product_name |-> product.name,
     source_name |-> source_product.name,
     product_category |-> product.category,
     same_brand |-> reason.same_brand,
     price_similarity |-> reason.price_similarity]

\* the text the code uses when it does not ask the GeminiService
SimilarText(source_product) ==
    <<"Similar to ", source_product.name, " - same category and comparable features.">>

\* lines 211-236 of get_similar_products_with_explanations: the loop over
\* the similar products from the i-th on
RECURSIVE ExplainSimilar(_, _, _, _, _, _, _)
ExplainSimilarNext(c, similar, replies, source_product, explain, i, results, g) ==
    ExplainSimilar(IF explain THEN g.cache ELSE c,
                   similar, replies, source_product, explain, i + 1,
                   Append(results,
                      [product |-> products[similar[i].product],
                       similarity_score |-> similar[i].score,
                       reason |-> similar[i].reason,
                       explanation |-> IF explain THEN <<g.result>>
                                       ELSE SimilarText(source_product)]))
ExplainSimilar(c, similar, replies, source_product, explain, i, results) ==
    IF i > Len(similar) THEN [cache |-> c, results |-> results]
    ELSE ExplainSimilarNext(c, similar, replies, source_product, explain, i, results,
            generate_content(c,
                SimilarPrompt(products[similar[i].product], source_product,
                              similar[i].reason),
                TRUE, replies[i]))

\* lines 238-243: the dictionary returned, and the cache left, after the loop
SimilarExplained(product_id, e) ==
    [result |-> [success |-> TRUE, source_product |-> products[product_id],
                 similar_products |-> e.results,
                 count |-> Len(e.results)],
     cache |-> e.cache]

\* RecommendationService.get_similar_products_with_explanations, given what
\* find_similar_products returned (similar)
get_similar_products_with_explanations(c, available, similar, product_id, include_explanations, replies) ==
    IF ~HasProduct(product_id)
    THEN [result |-> [success |-> FALSE, error |-> "Product not found"], cache |-> c]
    ELSE IF similar = << >>
    THEN [result |-> [success |-> TRUE, source_product |-> products[product_id],
                      similar_products |-> << >>,
                      message |-> "No similar products found"],
          cache |-> c]
    ELSE SimilarExplained(product_id,
            ExplainSimilar(c, similar, replies, products[product_id],
                           include_explanations /\ available, 1, << >>))

\* app.py: valid_strategies
valid_strategies == <<"auto", "hybrid", "collaborative", "content">>

\* the end of both routes (lines 841-844, 888-891): the HTTP answer for the
\* dictionary the service returned
Respond(result) ==
    IF result.success
    THEN [code |-> 200, body |-> [status |-> "success", data |-> result]]
    ELSE [code |-> 404, body |-> [status |-> "error", message |-> result.error]]

\* the answer of the GET route to a strategy that is not valid (lines 825-830)
InvalidStrategy ==
    [code |-> 400,
     body |-> [status |-> "error",
               message |-> "Invalid strategy. Must be one of: auto, hybrid, collaborative, content"]]

\* the answer of the POST route to a body without user_id (lines 868-872)
UserIdRequired ==
    [code |-> 400,
     body |-> [status |-> "error", message |-> "user_id is required in request body"]]

(***************************************************************************)
(* SpecService: requests served one at a time on one deployment.  The      *)
(* deployment is the catalog, the users, the interaction log up to some    *)
(* row, and a GeminiService that is configured or not (gemini_available).  *)
(* A request is one of the two routes, one of the two service methods, or  *)
(* a direct call of the combiner or of find_similar_products.  A request   *)
(* changes nothing but the cache of the GeminiService, so a behaviour is   *)
(* one request on the empty cache, or one request on the cache a WarmUp    *)
(* request left (every text generated).                                    *)
(***************************************************************************)
MaxServiceLimit == 2
ServiceLimits == 1..MaxServiceLimit
ServiceStores == {Pick(InteractionLog, 1..n, 1) : n \in 0..Len(InteractionLog)}
WarmUsers == {1, 2}
\* what the collaborator answers to one call
ServiceReplies == {[kind |-> "text", text |-> " Great pick! "],
                   [kind |-> "text", text |-> "  "],
                   [kind |-> "rate_limit", text |-> ""],
                   [kind |-> "exception", text |-> ""]}
ReplySeqs(n) == [1..n -> ServiceReplies]
\* a POST body without the key user_id
Absent == 0

\* what self.recommender.recommend_products returns to the service, which
\* calls it only for a user it has found
ServiceEngine(user_id, limit, strategy) ==
    IF HasUser(user_id)
    THEN recommend_products(DefaultWeights, user_id, limit, TRUE, strategy)
    ELSE [recommendations |-> << >>, scorers |-> {}]

\* the request before this one, if any, was a WarmUp: the service method
\* called on the empty cache with explanations, every one of them generated
WarmUp ==
    /\ req.op = "service.get_recommendations_with_explanations"
    /\ req.user_id \in WarmUsers /\ req.strategy = "auto"
    /\ req.limit = MaxServiceLimit /\ req.include_explanations
    /\ gen.len_before = 0 /\ gen.inserted # {}
    /\ \A i \in 1..Len(req.replies) : req.replies[i].text = " Great pick! "
Ready == req.op = "none" \/ WarmUp

InitService ==
    /\ pc = NoThreads /\ tl = NoThreads
    /\ NoDiversity
    /\ users = UserTable
    /\ \E p4_available \in BOOLEAN : products = Catalog(p4_available)
    /\ interactions \in ServiceStores
    /\ gemini_available \in BOOLEAN
    /\ cache = << >> /\ inserted_at = << >> /\ clock = 0
    /\ gen = NoCall
    /\ req = [op |-> "none"] /\ res = << >>

\* the GeminiService after a request that left its cache as c
GeminiLeft(c) ==
    LET kept == Keys(cache) \cap Keys(c)
        inserted == Keys(c) \ Keys(cache)
    IN  /\ cache' = c
        /\ clock' = clock + Cardinality(inserted)
        /\ inserted_at' =
              [prompt \in Keys(c) |->
                  IF prompt \in kept THEN inserted_at[prompt]
                  ELSE clock - Cardinality(kept)
                        + CHOOSE i \in 1..Len(c) : c[i].prompt = prompt]
        /\ gen' = [NoCall EXCEPT !.op = "request", !.len_before = Len(cache),
                                 !.evicted = Keys(cache) \ Keys(c),
                                 !.inserted = inserted]

notService == <<threadVars, divVars, storeVars>>

\* RecommendationService().get_recommendations_with_explanations(user_id,
\* limit, strategy, include_explanations)
ServiceRecommend(user_id, limit, strategy, include_explanations) ==
    /\ Ready
    /\ \E engine \in {ServiceEngine(user_id, limit, strategy)} :
       \E replies \in ReplySeqs(IF include_explanations /\ gemini_available
                                THEN Len(engine.recommendations) ELSE 0) :
       \E r \in {get_recommendations_with_explanations(cache, gemini_available, engine,
                        user_id, strategy, include_explanations, replies)} :
          /\ req' = [op |-> "service.get_recommendations_with_explanations",
                     user_id |-> user_id, limit |-> limit, strategy |-> strategy,
                     include_explanations |-> include_explanations,
                     replies |-> replies, scorers |-> engine.scorers,
                     engine |-> engine.recommendations]
          /\ res' = r.result
          /\ GeminiLeft(r.cache)
          /\ UNCHANGED notService

\* GET /api/recommend/<user_id>?limit=&strategy=&explain=
GetRecommend(user_id, limit, strategy, explain) ==
    /\ Ready
    /\ \E engine \in {IF strategy \in SeqToSet(valid_strategies)
                      THEN ServiceEngine(user_id, Min(limit, 20), strategy)
                      ELSE [recommendations |-> << >>, scorers |-> {}]} :
       \E replies \in ReplySeqs(IF explain /\ gemini_available
                                THEN Len(engine.recommendations) ELSE 0) :
       \E r \in {IF strategy \in SeqToSet(valid_strategies)
                 THEN get_recommendations_with_explanations(cache, gemini_available,
                            engine, user_id, strategy, explain, replies)
                 ELSE [cache |-> cache]} :
          /\ req' = [op |-> "GET /api/recommend/<user_id>",
                     user_id |-> user_id, limit |-> limit, strategy |-> strategy,
                     include_explanations |-> explain,
                     replies |-> replies, scorers |-> engine.scorers,
                     engine |-> engine.recommendations]
          /\ res' = IF strategy \in SeqToSet(valid_strategies)
                    THEN Respond(r.result) ELSE InvalidStrategy
          /\ GeminiLeft(r.cache)
          /\ UNCHANGED notService

\* POST /api/recommend with the body {user_id, limit, strategy, include_explanations}
PostRecommend(user_id, limit, strategy, include_explanations) ==
    /\ Ready
    /\ \E engine \in {IF user_id # Absent
                      THEN ServiceEngine(user_id, Min(limit, 20), strategy)
                      ELSE [recommendations |-> << >>, scorers |-> {}]} :
       \E replies \in ReplySeqs(IF include_explanations /\ gemini_available
                                THEN Len(engine.recommendations) ELSE 0) :
       \E r \in {IF user_id # Absent
                 THEN get_recommendations_with_explanations(cache, gemini_available,
                            engine, user_id, strategy, include_explanations, replies)
                 ELSE [cache |-> cache]} :
          /\ req' = [op |-> "POST /api/recommend",
                     user_id |-> user_id, limit |-> limit, strategy |-> strategy,
                     include_explanations |-> include_explanations,
                     replies |-> replies, scorers |-> engine.scorers,
                     engine |-> engine.recommendations]
          /\ res' = IF user_id # Absent THEN Respond(r.result) ELSE UserIdRequired
          /\ GeminiLeft(r.cache)
          /\ UNCHANGED notService

\* RecommendationService().get_similar_products_with_explanations(product_id,
\* limit, include_explanations)
ServiceSimilar(product_id, limit, include_explanations) ==
    /\ Ready
    /\ \E similar \in {find_similar_products(product_id, limit)} :
       \E replies \in ReplySeqs(IF include_explanations /\ gemini_available
                                THEN Len(similar) ELSE 0) :
       \E r \in {get_similar_products_with_explanations(cache, gemini_available, similar,
                        product_id, include_explanations, replies)} :
          /\ req' = [op |-> "service.get_similar_products_with_explanations",
                     product_id |-> product_id, limit |-> limit,
                     include_explanations |-> include_explanations,
                     replies |-> replies, engine |-> similar]
          /\ res' = r.result
          /\ GeminiLeft(r.cache)
          /\ UNCHANGED notService

\* GeminiService.explain_multiple_recommendations, lines 265-288: the loop
\* over the recommendations from the i-th on; what explain_recommendation
\* returns is the explanation
RECURSIVE ExplainMultipleFrom(_, _, _, _, _, _)
ExplainMultipleNext(recommendations, replies, user_context, i, results, g) ==
    ExplainMultipleFrom(g.cache, recommendations, replies, user_context, i + 1,
        Append(results,
           [product |-> products[recommendations[i].product],
            score |-> recommendations[i].score,
            reason |-> recommendations[i].reason,
            explanation |-> <<g.result>>]))
ExplainMultipleFrom(c, recommendations, replies, user_context, i, results) ==
    IF i > Len(recommendations) THEN [cache |-> c, results |-> results]
    ELSE ExplainMultipleNext(recommendations, replies, user_context, i, results,
            explain_recommendation(c, products[recommendations[i].product],
                                   user_context, recommendations[i].reason, replies[i]))

\* GeminiService.explain_multiple_recommendations
explain_multiple_recommendations(c, recommendations, user_context, replies) ==
    ExplainMultipleFrom(c, recommendations, replies, user_context, 1, << >>)

\* get_gemini_service().explain_multiple_recommendations(recommendations,
\* user_context) on what the combiner recommends to user_id, with the context
\* the combiner gives for that user; there is a GeminiService only when it
\* is configured
ExplainMultiple(user_id, limit) ==
    /\ Ready
    /\ gemini_available
    /\ HasUser(user_id)
    /\ \E engine \in {ServiceEngine(user_id, limit, "hybrid")} :
       \E replies \in ReplySeqs(Len(engine.recommendations)) :
       \E r \in {explain_multiple_recommendations(cache, engine.recommendations,
                        get_explanation_context(user_id), replies)} :
          /\ req' = [op |-> "gemini.explain_multiple_recommendations",
                     user_id |-> user_id, limit |-> limit,
                     replies |-> replies, engine |-> engine.recommendations]
          /\ res' = r.results
          /\ GeminiLeft(r.cache)
          /\ UNCHANGED notService

NextService ==
    \/ \E user_id \in UserIds, limit \in ServiceLimits, strategy \in StrategyArgs,
          include_explanations \in BOOLEAN :
          ServiceRecommend(user_id, limit, strategy, include_explanations)
    \/ \E user_id \in UserIds, limit \in ServiceLimits, strategy \in StrategyArgs,
          explain \in BOOLEAN :
          GetRecommend(user_id, limit, strategy, explain)
    \/ \E user_id \in UserIds \cup {Absent}, limit \in ServiceLimits,
          strategy \in StrategyArgs, include_explanations \in BOOLEAN :
          PostRecommend(user_id, limit, strategy, include_explanations)
    \/ \E product_id \in ProductIds, limit \in ServiceLimits,
          include_explanations \in BOOLEAN :
          ServiceSimilar(product_id, limit, include_explanations)
    \/ \E user_id \in UserIds, limit \in ServiceLimits, strategy \in StrategyArgs :
          HybridRecommend(DefaultWeights, user_id, limit, TRUE, strategy)
    \/ \E product_id \in ProductIds, limit \in ServiceLimits :
          FindSimilarProducts(product_id, limit)
    \/ \E user_id \in UserIds, limit \in ServiceLimits, exclude_interacted \in BOOLEAN :
          CollaborativeRecommend(user_id, limit, exclude_interacted)
    \/ \E user_id \in UserIds, limit \in ServiceLimits, exclude_interacted \in BOOLEAN :
          ContentRecommend(user_id, limit, exclude_interacted)
    \/ \E user_id \in UserIds, limit \in ServiceLimits,
          diversity_factor \in DiversityFactors :
          DiverseRecommend(DefaultWeights, user_id, limit, diversity_factor)
    \/ \E user_id \in UserIds, limit \in ServiceLimits : ExplainMultiple(user_id, limit)

SpecService == InitService /\ [][NextService]_vars

\* C1: whatever the collaborator does for each item (a text, nothing, a rate
\* limit, another exception) and also when it is not configured,
\* get_recommendations_with_explanations returns one entry for each
\* recommendation of the engine, in its order, each with a non-empty
\* explanation.
C1_EveryEntryExplained ==
    (req.op = "service.get_recommendations_with_explanations" /\ HasUser(req.user_id))
        => /\ res.success
           /\ Len(res.recommendations) = Len(req.engine)
           /\ \A i \in 1..Len(req.engine) :
                 /\ res.recommendations[i].product.id = req.engine[i].product
                 /\ HasText(res.recommendations[i].explanation)

\* C1 witness: the engine gave two recommendations, the collaborator failed
\* with a rate limit on the first and produced no text for the second, and
\* both entries are returned.
C1_Witness ==
    /\ req.op = "service.get_recommendations_with_explanations"
    /\ Len(req.engine) = 2 /\ Len(req.replies) = 2
    /\ req.replies[1].kind = "rate_limit"
    /\ req.replies[2] = [kind |-> "text", text |-> "  "]
    /\ Len(res.recommendations) = 2

StrategyOps == {"service.get_recommendations_with_explanations",
                "GET /api/recommend/<user_id>", "POST /api/recommend",
                "hybrid.recommend_products"}

\* C6: at each of the four entry points that take a strategy, a strategy that
\* is not auto, hybrid, collaborative or content is rejected and no scorer runs.
C6_InvalidStrategyRejected ==
    (req.op \in StrategyOps /\ req.strategy \notin Strategies)
        => /\ req.scorers = {}
           /\ req.op \in {"GET /api/recommend/<user_id>", "POST /api/recommend"}
                 => res.code # 200
           /\ req.op = "service.get_recommendations_with_explanations"
                 => ~res.success

\* C7: a user id or product id that does not exist ends in a not-found
\* outcome, never in an empty list, in the two service methods, in
\* recommend_products of the combiner and in find_similar_products.
C7_NotFoundDistinct ==
    /\ (req.op = "service.get_recommendations_with_explanations"
            /\ ~HasUser(req.user_id))
          => (~res.success /\ res.error = "User not found")
    /\ (req.op = "service.get_similar_products_with_explanations"
            /\ ~HasProduct(req.product_id))
          => (~res.success /\ res.error = "Product not found")
    /\ (req.op = "hybrid.recommend_products" /\ ~HasUser(req.user_id))
          => res # << >>
    /\ (req.op = "find_similar_products" /\ ~HasProduct(req.product_id))
          => res # << >>

\* C12: when the collaborator fails, is rate-limited or is not configured,
\* explain_recommendation (called for each entry of
\* explain_multiple_recommendations) and
\* get_similar_products_with_explanations deliver a text, never None and
\* never an empty explanation.
C12_FallbackDelivered ==
    /\ (req.op = "service.get_similar_products_with_explanations"
            /\ HasProduct(req.product_id))
          => \A i \in 1..Len(res.similar_products) :
                HasText(res.similar_products[i].explanation)
    /\ req.op = "gemini.explain_multiple_recommendations"
          => \A i \in 1..Len(res) : HasText(res[i].explanation)

\* C18: for a user that exists, what get_recommendations_with_explanations
\* returns has success true and the fields strategy_used, count and
\* gemini_enabled, count being the number of entries of recommendations.
C18_ResultFields ==
    (req.op = "service.get_recommendations_with_explanations" /\ HasUser(req.user_id))
        => /\ res.success
           /\ {"strategy_used", "count", "gemini_enabled"} \subseteq DOMAIN res
           /\ res.count = Len(res.recommendations)

\* the operations C27 names, as req.op records them
RecommendationOps ==
    {"collaborative.recommend_products", "content.recommend_products",
     "hybrid.recommend_products", "get_recommendations_with_diversity",
     "find_similar_products", "service.get_recommendations_with_explanations"}

\* C27: every recommendation operation (collaborative, content, hybrid,
\* diversity, find_similar_products, get_recommendations_with_explanations)
\* leaves the interaction store, the product catalog and the user records
\* as they were; of the state of the deployment a request changes nothing
\* but the response cache of the GeminiService.
C27_StoreUntouched ==
    [][req'.op \in RecommendationOps
          => /\ interactions' = interactions
             /\ products' = products
             /\ users' = users
             /\ gemini_available' = gemini_available
             /\ UNCHANGED <<threadVars, divVars>>]_vars

\* C27 witness: get_recommendations_with_explanations served a user who has
\* interactions, returned recommendations and put an explanation in the
\* cache.
C27_Witness ==
    /\ req.op = "service.get_recommendations_with_explanations"
    /\ InteractionCount(req.user_id) > 0
    /\ Len(req.engine) > 0
    /\ cache # << >>

(***************************************************************************)
(* The functions that do not read the store, each applied once to an       *)
(* argument drawn from a bounded set.                                      *)
(***************************************************************************)
MaxScores == 3
\* raw scores in thousandths: a negative one (removals weigh -2 and -1), zero,
\* two close ones and a large one
ScoreValues == {0 - 2 * SCALE, 0, SCALE + 500, 2 * SCALE + 900, 100 * SCALE}
\* lists of (product, score, reason) of up to MaxScores entries
ScoreLists ==
    UNION {[1..n -> ScoreValues] : n \in 0..MaxScores}
AsScored(scores) ==
    [i \in 1..Len(scores) |->
        [product |-> i, score |-> scores[i], reason |-> [type |-> "content_based"]]]

InitFunctions ==
    /\ cache = << >> /\ inserted_at = << >> /\ clock = 0 /\ gen = NoCall
    /\ pc = NoThreads /\ tl = NoThreads
    /\ NoDiversity
    /\ users = UserTable
    /\ \E p4_available \in BOOLEAN : products = Catalog(p4_available)
    /\ interactions = InteractionLog
    /\ gemini_available = FALSE
    /\ req = [op |-> "none"] /\ res = << >>

\* HybridRecommendationService()._normalize_scores(recommendations), the
\* list having the given scores
NormalizeScores(scores) ==
    /\ req.op = "none"
    /\ \E recommendations \in {AsScored(scores)} :
        /\ req' = [op |-> "_normalize_scores", recommendations |-> recommendations]
        /\ res' = _normalize_scores(recommendations)
    /\ UNCHANGED notEngine

\* the reasons the scorers attach, by type; a content_based one with every
\* combination of matched_category and matched_brand
FallbackReasons ==
    <<[type |-> "collaborative", recommenders_count |-> 1],
      [type |-> "collaborative", recommenders_count |-> 2],
      [type |-> "content_based", matched_category |-> FALSE, matched_brand |-> FALSE],
      [type |-> "content_based", matched_category |-> FALSE, matched_brand |-> TRUE],
      [type |-> "content_based", matched_category |-> TRUE, matched_brand |-> FALSE],
      [type |-> "content_based", matched_category |-> TRUE, matched_brand |-> TRUE],
      [type |-> "hybrid", methods_used |-> <<"collaborative", "content_based">>],
      [type |-> "popular_fallback", interaction_count |-> 2]>>

\* RecommendationService()._generate_fallback_explanation(product.to_dict(), reason)
FallbackExplanation(product_id, k) ==
    /\ req.op = "none"
    /\ HasProduct(product_id)
    /\ req' = [op |-> "_generate_fallback_explanation", product_id |-> product_id,
               reason |-> FallbackReasons[k]]
    /\ res' = _generate_fallback_explanation(products[product_id], FallbackReasons[k])
    /\ UNCHANGED notEngine

\* what callers pass as interaction type: the listed types, and values that
\* are none of them
TypeArgs == {interaction_types[i] : i \in 1..Len(interaction_types)}
                \cup {"share", "Purchase", ""}

\* UserInteraction.get_interaction_weight(interaction_type)
InteractionWeight(interaction_type) ==
    /\ req.op = "none"
    /\ req' = [op |-> "get_interaction_weight", interaction_type |-> interaction_type]
    /\ res' = get_interaction_weight(interaction_type)
    /\ UNCHANGED notEngine

NextFunctions ==
    \/ \E scores \in ScoreLists : NormalizeScores(scores)
    \/ \E product_id \in ProductIds, k \in 1..Len(FallbackReasons) :
          FallbackExplanation(product_id, k)
    \/ \E interaction_type \in TypeArgs : InteractionWeight(interaction_type)

SpecFunctions == InitFunctions /\ [][NextFunctions]_vars

\* C11: _normalize_scores keeps the entries and their order; a non-empty list
\* of equal scores (a single entry included) gets 50 everywhere; a list with
\* two distinct scores gets scores within [0, 100], 0 for the minimum and 100
\* for the maximum, and a higher score never gets a lower normalized score.
C11_Normalized ==
    req.op = "_normalize_scores"
        => LET input == req.recommendations
               scores == Scores(input)
               N == 1..Len(input)
           IN  /\ Len(res) = Len(input)
               /\ \A i \in N : /\ res[i].product = input[i].product
                               /\ res[i].reason = input[i].reason
               /\ (input # << >> /\ \A i \in N : scores[i] = scores[1])
                     => \A i \in N : res[i].score = 50 * SCALE
               /\ (\E i, j \in N : scores[i] # scores[j])
                     => \A i \in N :
                           /\ res[i].score >= 0 /\ res[i].score <= 100 * SCALE
                           /\ scores[i] = MinSeq(scores) => res[i].score = 0
                           /\ scores[i] = MaxSeq(scores) => res[i].score = 100 * SCALE
                           /\ \A j \in N : scores[i] <= scores[j]
                                              => res[i].score <= res[j].score

\* C11 witness: three distinct scores, the lowest negative and in the middle
\* of the list, and the entry between the extremes gets a score strictly
\* between 0 and 100.
C11_Witness ==
    /\ req.op = "_normalize_scores"
    /\ Len(req.recommendations) = 3
    /\ req.recommendations[2].score < 0
    /\ req.recommendations[1].score > req.recommendations[3].score
    /\ req.recommendations[3].score > 0
    /\ res[3].score > 0 /\ res[3].score < 100 * SCALE
    /\ res[2].score = 0

\* the text has the piece
Mentions(text, piece) == \E i \in 1..Len(text) : text[i] = piece

\* C13: for every reason type the fallback explanation is non-empty and
\* has the name of the product and the category of the product in it.
C13_FallbackNamesCategory ==
    req.op = "_generate_fallback_explanation"
        => /\ HasText(res)
           /\ Mentions(res, products[req.product_id].name)
           /\ Mentions(res, products[req.product_id].category)

\* C15: get_interaction_weight returns purchase 10, rating 8, review 8,
\* cart_add 6, wishlist_add 5, click 3, view 2, search 1, cart_remove -2,
\* wishlist_remove -1 and 1 for anything else, and every type that
\* interaction_types lists has an entry of its own in the table.
C15_WeightTable ==
    /\ req.op = "get_interaction_weight"
          => res = CASE req.interaction_type = "purchase" -> 10
                     [] req.interaction_type \in {"rating", "review"} -> 8
                     [] req.interaction_type = "cart_add" -> 6
                     [] req.interaction_type = "wishlist_add" -> 5
                     [] req.interaction_type = "click" -> 3
                     [] req.interaction_type = "view" -> 2
                     [] req.interaction_type = "search" -> 1
                     [] req.interaction_type = "cart_remove" -> 0 - 2
                     [] req.interaction_type = "wishlist_remove" -> 0 - 1
                     [] OTHER -> 1
    /\ (req.op = "get_interaction_weight"
            /\ \E i \in 1..Len(interaction_types) :
                  interaction_types[i] = req.interaction_type)
          => req.interaction_type \in DKeys(interaction_weights)

\* C15 witness: the weight of a removal was asked for and is negative
C15_Witness ==
    /\ req.op = "get_interaction_weight"
    /\ req.interaction_type = "cart_remove"
    /\ res = 0 - 2

=============================================================================
